---- MODULE Spec2Model ----
(***************************************************************************)
(* A model of marduk's GR(1) game solver: the winning region               *)
(* (winning_region.py), the strategy (strategy.py) and the environment's  *)
(* counterstrategy (spec_debug/counterstrategy_computer.py).               *)
(*                                                                         *)
(* A BDD over the game's variables is modelled by the set of assignments   *)
(* it accepts.  An assignment is a tuple <<i, o, ip, op>>: the present     *)
(* input, the present output, the next input and the next output.  A set   *)
(* of states is a BDD that does not depend on the next variables.          *)
(***************************************************************************)
EXTENDS Integers, Sequences, FiniteSets, TLC

\* The number of values of the input and of the output variables.
NumIn == 2
NumOut == 2
\* The largest number of guarantees and of assumptions of a game.
MaxN == 2
MaxM == 2
\* The number of games the solver is run on.
NumGames == 240
\* The number of games with the guarantee FALSE among them.
NumFalse == 24
\* The number of games _coax_env is applied in to every set of states.
NumCoaxGames == 40
\* The number of games of the sample a counterstrategy is computed for.
NumCounterGames == 60
\* The function cache: the largest limit cacheSize is set to, the largest
\* support of a cached function, and the largest number of entries and of
\* wires update is called with.
MaxCacheSize == 2
MaxSupport == 2
MaxEntries == 3
\* Delta debugging: the largest number of elements of the list minimize is
\* called with.
MaxElements == 4
\* The memory counter: the largest n _moduloInc is called with.
MaxCounter == 10

In == 0 .. (NumIn - 1)
Out == 0 .. (NumOut - 1)

\* All assignments to <<i, o, ip, op>>: the BDD ONE.  ZERO is the empty set.
ONE == {<<a, b, c, d>> : a \in In, b \in Out, c \in In, d \in Out}
ZERO == {}

\* Positions of the variables in an assignment, and the cubes the code builds.
PresentIn == {1}
PresentOut == {2}
NextIn == {3}
NextOut == {4}

Not(f) == ONE \ f

\* BDD.swapVariables(present, next)
swapVariables(f) == {<<t[3], t[4], t[1], t[2]>> : t \in f}

Dom(k) == IF k \in {1, 3} THEN In ELSE Out

\* BDD.exists(cube) and BDD.forall(cube): the variables of the cube are
\* abstracted one after the other, each from the value g of the BDD so far.
exists(f, cube) ==
    LET e(h, k) ==
            IF k \in cube
            THEN UNION {{t \in ONE : \E v \in Dom(k) : [t EXCEPT ![k] = v] \in g}
                           : g \in {h}}
            ELSE h
    IN  e(e(e(e(f, 1), 2), 3), 4)

forall(f, cube) ==
    LET a(h, k) ==
            IF k \in cube
            THEN UNION {{t \in ONE : \A v \in Dom(k) : [t EXCEPT ![k] = v] \in g}
                           : g \in {h}}
            ELSE h
    IN  a(a(a(a(f, 1), 2), 3), 4)

\* BDD.andExists(bdd2, cube)
andExists(f, g, cube) == exists(f \cap g, cube)

\* The set of states <<i, o>> a BDD over the present variables stands for.
StatesOf(f) == {<<t[1], t[2]>> : t \in f}
\* The BDD over the present variables of a set of states.
Lift(S) == {t \in ONE : <<t[1], t[2]>> \in S}
States == {<<a, b>> : a \in In, b \in Out}

-----------------------------------------------------------------------------
(* The games: a reproducible pseudo-random sample of the games over In and *)
(* Out, game g having g % (MaxN+1) guarantees, and the games of the two    *)
(* scenarios of the solver: the guarantee out = 1 without assumptions, and *)
(* the guarantee FALSE.                                                    *)

Hash(g, k) ==
    LET h1 == (g * 7919 + k * 7907 + 70) % 32749
        h2 == (h1 * h1 + 3 * h1 + 7) % 32749
        h3 == (h2 * h2 + h1 + g) % 32749
    IN  h3 \div 7

Key(t, salt) == salt * 1000 + t[1] * 125 + t[2] * 25 + t[3] * 5 + t[4]

Den(g, salt) == 2 + (Hash(g, salt) % 3)

\* A BDD over the variable positions in `vars`, drawn for game g.
Draw(g, salt, vars) ==
    LET base(t) == [k \in 1 .. 4 |-> IF k \in vars THEN t[k] ELSE 0]
    IN  {t \in ONE : Hash(g, Key(base(t), salt)) % Den(g, salt) # 0}

NumGuarantees(g) == g % (MaxN + 1)
NumAssumptions(g) == (g \div (MaxN + 1)) % (MaxM + 1)

\* What Specification._set_up_bdds leaves for the solver.
Game(g) ==
    LET t1 == Draw(g, 1, {1, 2, 3})
        t2 == Draw(g, 2, {1, 2, 3, 4})
        i1 == Draw(g, 3, {1})
        i2 == Draw(g, 4, {1, 2})
    IN  [id |-> g,
         trans1 |-> t1, trans2 |-> t2, trans12 |-> t1 \cap t2,
         init1 |-> i1, init2 |-> i2, init12 |-> i1 \cap i2,
         assumptions |-> [k \in 1 .. NumAssumptions(g) |-> Draw(g, 10 + k, {1, 2})],
         guarantees |-> [k \in 1 .. NumGuarantees(g) |-> Draw(g, 20 + k, {1, 2})]]

\* The game with the single guarantee out = 1 and no assumption: the initial
\* states and the transition relations allow everything.
OutIsOne ==
    [id |-> 0,
     trans1 |-> ONE, trans2 |-> ONE, trans12 |-> ONE,
     init1 |-> ONE, init2 |-> ONE, init12 |-> ONE,
     assumptions |-> <<>>,
     guarantees |-> <<{t \in ONE : t[2] = 1}>>]

\* Game g with the constant FALSE as its single guarantee.  For an even g
\* the environment is made harmless as well: every assumption is TRUE and
\* env_trans allows the next input 0 from every state.
FalseGuarantee(g) ==
    LET b == Game(g)
        t1 == IF g % 2 = 0 THEN b.trans1 \cup {t \in ONE : t[3] = 0} ELSE b.trans1
    IN  [id |-> NumGames + g,
         trans1 |-> t1, trans2 |-> b.trans2, trans12 |-> t1 \cap b.trans2,
         init1 |-> b.init1, init2 |-> b.init2, init12 |-> b.init12,
         assumptions |-> IF g % 2 = 0
                         THEN [k \in 1 .. NumAssumptions(g) |-> ONE]
                         ELSE b.assumptions,
         guarantees |-> <<ZERO>>]

Games ==
    {Game(g) : g \in 1 .. NumGames} \cup {OutIsOne}
        \cup {FalseGuarantee(g) : g \in 1 .. NumFalse}

-----------------------------------------------------------------------------
VARIABLES
    spec,           \* marduk.specification: the game
    pc,             \* the position in marduk.run
    z, old_z, y, old_y, x, old_x, start, j, r, i,   \* calcWinningRegion's locals
    xArray, yArray, \* WinningRegion.__xArray, __yArray
    winningRegion,  \* WinningRegion.__winningRegion
    init1, init2, init12,   \* WinningRegion.__init1, __init2, __init12
    transitionjx, initjx,   \* WinningRegion.__transitionjx, __initjx
    killed,         \* the fields of WinningRegion that are None
    realizable,     \* what isRealizable returned
    dc,             \* what BDD restrict (//) makes of a BDD outside its care set
    reachable_states, strategy,     \* calcStrategy's locals
    error,          \* the exception that ended the run, if any
    envZ, z_array, y_array, x_array,    \* what winm_env returned
    counterstrategy,    \* what strategy_env_fast returned
    utils_init,     \* SpecDebugUtils.__init
    arg_states, mixed_preimage,     \* _coax_env's argument and what it returns
    max_cache_size, caching_enabled,    \* FunctionCache.__max_cache_size, ...
    cachetree,      \* FunctionCache.__cachetree
    all_elements, causes, solution, \* DeltaDebugger.minimize: its argument,
                    \* the sets its test fails on, and what it returns
    one_hot, arg_n, \* Marduk.one_hot and the argument of _moduloInc
    trans_relation, start_state,    \* the BDDs _moduloInc builds over the bits
                    \* of jx: __transitionjx and __initjx
    jp1,            \* _calc_rho1's jp1, a BDD over the present bits of jx
    ps, jxv, ixv,   \* a play: the state <<i, o>> and the memories jx and ix
    tick            \* the parity of the number of moves of the play

locals == <<z, old_z, y, old_y, x, old_x, start, j, r, i>>
arrays == <<xArray, yArray>>
inits == <<init1, init2, init12>>
jxs == <<transitionjx, initjx>>
strat == <<dc, reachable_states, strategy>>
play == <<ps, jxv, ixv, tick>>
dual == <<envZ, z_array, y_array, x_array, counterstrategy, utils_init,
          arg_states, mixed_preimage>>

cache == <<max_cache_size, caching_enabled, cachetree>>

\* The units that are run on their own.
bits == <<one_hot, arg_n, trans_relation, start_state, jp1>>
units == <<all_elements, causes, solution, bits>>

vars == <<spec, pc, locals, arrays, winningRegion, inits, jxs, killed,
          realizable, strat, error, dual, cache, units, play>>

n == Len(spec.guarantees)
m == Len(spec.assumptions)

\* coax without the states the environment cannot leave
coax_no_env(states) ==
    LET swapped_states == swapVariables(states)
        result == andExists(spec.trans2, swapped_states, NextOut)
    IN  forall(result, NextIn)

\* WinningRegion.coax
coax(states) ==
    LET swapped_states == swapVariables(states)
        result == andExists(spec.trans2, swapped_states, NextOut)
    IN  forall(result \cup Not(spec.trans1), NextIn)

\* WinningRegion._moduloInc for k > 0: the counter jx as a number, its
\* transition relation as pairs <<jx, jx'>>.  For k = 0 it sets nothing.
moduloInc(k) ==
    [trans |-> {<<a, (a + 1) % k>> : a \in 0 .. (k - 1)}, init |-> {0}]

\* None, the value of __max_cache_size of a cache without limit
None == -1

\* A child of the root of the tree that is None, and a Leaf without wires.
\* The wires of a leaf are kept by their supports.
NoChild == [present |-> FALSE, wires |-> <<>>, max_support |-> 0]
NewLeaf == [present |-> TRUE, wires |-> <<>>, max_support |-> 0]

\* CacheTree.__init__ for one classification vector: the root's children are
\* the leaves of the signatures <<1>> and <<0>>
NewCacheTree ==
    [num_entries |-> 0, one_child |-> NoChild, zero_child |-> NoChild,
     max_support |-> 0]

\* FunctionCache.__init__ and clear_cache
NewCache ==
    /\ max_cache_size = None
    /\ caching_enabled = TRUE
    /\ cachetree = NewCacheTree

\* No unit has been run.
NewBits ==
    /\ one_hot = FALSE /\ arg_n = 0
    /\ trans_relation = {} /\ start_state = {} /\ jp1 = {}

NewUnits ==
    /\ all_elements = <<>> /\ causes = {} /\ solution = <<>>
    /\ NewBits

\* WinningRegion.__init__
Init ==
    /\ spec \in Games
    /\ pc = "start"
    /\ z = ZERO /\ old_z = ZERO
    /\ y = ZERO /\ old_y = ZERO /\ x = ZERO /\ old_x = ZERO /\ start = ZERO
    /\ j = 0 /\ r = 0 /\ i = 0
    /\ xArray = <<>>
    /\ yArray = <<>>
    /\ winningRegion = ZERO
    /\ init1 = ZERO /\ init2 = ZERO /\ init12 = ZERO
    /\ transitionjx = {} /\ initjx = {}
    /\ killed = {"winningRegion", "transition", "transitionjx", "init", "initjx"}
    /\ realizable = FALSE
    /\ dc = "keep"
    /\ reachable_states = ZERO /\ strategy = {}
    /\ error = ""
    /\ envZ = ZERO /\ z_array = <<>> /\ y_array = <<>> /\ x_array = <<>>
    /\ counterstrategy = {}
    /\ utils_init = ZERO
    /\ arg_states = ZERO /\ mixed_preimage = ZERO
    /\ NewCache
    /\ NewUnits
    /\ ps = <<0, 0>> /\ jxv = 0 /\ ixv = 0 /\ tick = 0

\* calcWinningRegion starting its loop over z from the empty set
CalcBegin_from_zero ==
    /\ pc = "start"
    /\ init1' = spec.init1
    /\ init2' = spec.init2
    /\ init12' = spec.init12
    /\ IF n = 0
       THEN /\ UNCHANGED jxs
            /\ killed' = {"winningRegion", "transitionjx", "initjx"}
       ELSE /\ transitionjx' = moduloInc(n).trans
            /\ initjx' = moduloInc(n).init
            /\ killed' = {"winningRegion"}
    /\ old_z' = ONE
    /\ z' = ZERO
    /\ pc' = "z_test"
    /\ UNCHANGED <<spec, y, old_y, x, old_x, start, j, r, i, arrays,
                   winningRegion, realizable, strat, error, dual, cache, units, play>>

\* calcWinningRegion up to its first loop
CalcBegin ==
    /\ pc = "start"
    /\ init1' = spec.init1
    /\ init2' = spec.init2
    /\ init12' = spec.init12
    /\ IF n = 0
       THEN /\ UNCHANGED jxs
            /\ killed' = {"winningRegion", "transitionjx", "initjx"}
       ELSE /\ transitionjx' = moduloInc(n).trans
            /\ initjx' = moduloInc(n).init
            /\ killed' = {"winningRegion"}
    /\ old_z' = ZERO
    /\ z' = ONE
    /\ pc' = "z_test"
    /\ UNCHANGED <<spec, y, old_y, x, old_x, start, j, r, i, arrays,
                   winningRegion, realizable, strat, error, dual, cache, units, play>>

rest == <<spec, winningRegion, inits, jxs, killed, realizable, strat, error,
          dual, cache, units, play>>

\* while (z != old_z): old_z = z; for j in range(0, n): ...
ZRound ==
    /\ pc = "z_test" /\ z # old_z
    /\ old_z' = z
    /\ j' = 0
    /\ pc' = "j_loop"
    /\ UNCHANGED <<z, y, old_y, x, old_x, start, r, i, arrays, rest>>

\* the loop over z left after its first round
ZExit_one_round ==
    /\ pc = "z_test" /\ old_z # ZERO
    /\ winningRegion' = z
    /\ killed' = killed \ {"winningRegion"}
    /\ pc' = "win_done"
    /\ UNCHANGED <<spec, locals, arrays, inits, jxs, realizable, strat, error,
                   dual, cache, units, play>>

\* the loop over z ends: self.__winningRegion = z
ZExit ==
    /\ pc = "z_test" /\ z = old_z
    /\ winningRegion' = z
    /\ killed' = killed \ {"winningRegion"}
    /\ pc' = "win_done"
    /\ UNCHANGED <<spec, locals, arrays, inits, jxs, realizable, strat, error,
                   dual, cache, units, play>>

\* the head of the body of the loop over j
JBegin ==
    /\ pc = "j_loop" /\ j < n
    /\ r' = 0
    /\ old_y' = ONE
    /\ y' = ZERO
    /\ yArray' = IF j + 1 > Len(yArray) THEN Append(yArray, <<>>)
                  ELSE [yArray EXCEPT ![j + 1] = <<>>]
    /\ xArray' = IF j + 1 > Len(xArray) THEN Append(xArray, <<>>)
                  ELSE [xArray EXCEPT ![j + 1] = <<>>]
    /\ pc' = "y_test"
    /\ UNCHANGED <<z, old_z, x, old_x, start, j, i, rest>>

\* the loop over j ends
JExit ==
    /\ pc = "j_loop" /\ j >= n
    /\ pc' = "z_test"
    /\ UNCHANGED <<locals, arrays, rest>>

\* the body of the loop over y with start lacking coax(y)
YIter_no_coax_y ==
    /\ pc = "y_test" /\ y # old_y
    /\ xArray' = [xArray EXCEPT ![j + 1] = Append(@, <<>>)]
    /\ old_y' = y
    /\ start' = spec.guarantees[j + 1] \cap coax(z)
    /\ y' = ZERO
    /\ i' = 0
    /\ pc' = "i_loop"
    /\ UNCHANGED <<z, old_z, x, old_x, j, r, yArray, rest>>

\* the body of the loop over y with start = guarantee + coax(z) + coax(y)
YIter_guarantee_or_coax_z ==
    /\ pc = "y_test" /\ y # old_y
    /\ xArray' = [xArray EXCEPT ![j + 1] = Append(@, <<>>)]
    /\ old_y' = y
    /\ start' = spec.guarantees[j + 1] \cup coax(z) \cup coax(y)
    /\ y' = ZERO
    /\ i' = 0
    /\ pc' = "i_loop"
    /\ UNCHANGED <<z, old_z, x, old_x, j, r, yArray, rest>>

\* while (y != old_y): the head of the body, up to the loop over i
YIter ==
    /\ pc = "y_test" /\ y # old_y
    /\ xArray' = [xArray EXCEPT ![j + 1] = Append(@, <<>>)]
    /\ old_y' = y
    /\ start' = (spec.guarantees[j + 1] \cap coax(z)) \cup coax(y)
    /\ y' = ZERO
    /\ i' = 0
    /\ pc' = "i_loop"
    /\ UNCHANGED <<z, old_z, x, old_x, j, r, yArray, rest>>

\* the loop over y ends with the last iterate of xArray kept
YExit_pops_y_only ==
    /\ pc = "y_test" /\ y = old_y
    /\ yArray' = [yArray EXCEPT ![j + 1] = SubSeq(@, 1, Len(@) - 1)]
    /\ z' = y
    /\ j' = j + 1
    /\ pc' = "j_loop"
    /\ UNCHANGED <<old_z, y, old_y, x, old_x, start, r, i, xArray, rest>>

\* the loop over y ends: pop the last iterate of both arrays, z = y
YExit ==
    /\ pc = "y_test" /\ y = old_y
    /\ yArray' = [yArray EXCEPT ![j + 1] = SubSeq(@, 1, Len(@) - 1)]
    /\ xArray' = [xArray EXCEPT ![j + 1] = SubSeq(@, 1, Len(@) - 1)]
    /\ z' = y
    /\ j' = j + 1
    /\ pc' = "j_loop"
    /\ UNCHANGED <<old_z, y, old_y, x, old_x, start, r, i, rest>>

\* the loop over x started as a least fixpoint
XBegin_from_zero ==
    /\ pc = "i_loop" /\ i < m
    /\ old_x' = ONE
    /\ x' = ZERO
    /\ pc' = "x_test"
    /\ UNCHANGED <<z, old_z, y, old_y, start, j, r, i, arrays, rest>>

\* for i in range(0, m): old_x = ZERO; x = z
XBegin ==
    /\ pc = "i_loop" /\ i < m
    /\ old_x' = ZERO
    /\ x' = z
    /\ pc' = "x_test"
    /\ UNCHANGED <<z, old_z, y, old_y, start, j, r, i, arrays, rest>>

\* the loop over i ends: self.__yArray[j][r] = y; r += 1
IExit ==
    /\ pc = "i_loop" /\ i >= m
    /\ yArray' = [yArray EXCEPT ![j + 1] = Append(@, y)]
    /\ r' = r + 1
    /\ pc' = "y_test"
    /\ UNCHANGED <<z, old_z, y, old_y, x, old_x, start, j, i, xArray, rest>>

\* the body of the loop over x without old_x = x
XIter_keeps_old_x ==
    /\ pc = "x_test" /\ x # old_x
    /\ x' = start \cup (Not(spec.assumptions[i + 1]) \cap coax(x))
    /\ UNCHANGED <<pc, z, old_z, y, old_y, old_x, start, j, r, i, arrays, rest>>

\* while (x != old_x): old_x = x; x = start + (~assumptions[i] * coax(x))
XIter ==
    /\ pc = "x_test" /\ x # old_x
    /\ old_x' = x
    /\ x' = start \cup (Not(spec.assumptions[i + 1]) \cap coax(x))
    /\ UNCHANGED <<pc, z, old_z, y, old_y, start, j, r, i, arrays, rest>>

\* the loop over x ends: self.__xArray[j][r][i] = x; y = y + x
XExit ==
    /\ pc = "x_test" /\ x = old_x
    /\ xArray' = [xArray EXCEPT ![j + 1][r + 1] = Append(@, x)]
    /\ y' = y \cup x
    /\ i' = i + 1
    /\ pc' = "i_loop"
    /\ UNCHANGED <<z, old_z, old_y, x, old_x, start, j, r, yArray, rest>>

calcWinningRegion ==
    \/ CalcBegin \/ ZRound \/ ZExit \/ JBegin \/ JExit \/ YIter \/ YExit
    \/ XBegin \/ IExit \/ XIter \/ XExit

-----------------------------------------------------------------------------
\* isRealizable asking for every initial output to be winning
isRealizable_forall ==
    /\ pc = "win_done"
    /\ LET win_and_sys_initial == winningRegion \cap init2
           can_find_initial_output == forall(win_and_sys_initial, PresentOut)
           res == (Not(init1) \cup can_find_initial_output) = ONE
       IN  /\ realizable' = res
           /\ IF res /\ ~(init12 \subseteq winningRegion)
              THEN /\ init1' = init1 \cap winningRegion
                   /\ init2' = init2 \cap winningRegion
                   /\ init12' = init12 \cap winningRegion
              ELSE UNCHANGED inits
           /\ pc' = IF res THEN "realizable" ELSE "unrealizable"
    /\ UNCHANGED <<spec, locals, arrays, winningRegion, jxs, killed, strat,
                   error, dual, cache, units, play>>

\* isRealizable narrowing the initial states whatever its answer
isRealizable_always_narrows ==
    /\ pc = "win_done"
    /\ LET win_and_sys_initial == winningRegion \cap init2
           can_find_initial_output == exists(win_and_sys_initial, PresentOut)
           res == (Not(init1) \cup can_find_initial_output) = ONE
       IN  /\ realizable' = res
           /\ init1' = init1 \cap winningRegion
           /\ init2' = init2 \cap winningRegion
           /\ init12' = init12 \cap winningRegion
           /\ pc' = IF res THEN "realizable" ELSE "unrealizable"
    /\ UNCHANGED <<spec, locals, arrays, winningRegion, jxs, killed, strat,
                   error, dual, cache, units, play>>

\* WinningRegion.isRealizable: the test, and the narrowing of the initial
\* states when some but not all of them are winning.
isRealizable ==
    /\ pc = "win_done"
    /\ LET win_and_sys_initial == winningRegion \cap init2
           can_find_initial_output == exists(win_and_sys_initial, PresentOut)
           res == (Not(init1) \cup can_find_initial_output) = ONE
       IN  /\ realizable' = res
           /\ IF res /\ ~(init12 \subseteq winningRegion)
              THEN /\ init1' = init1 \cap winningRegion
                   /\ init2' = init2 \cap winningRegion
                   /\ init12' = init12 \cap winningRegion
              ELSE UNCHANGED inits
           /\ pc' = IF res THEN "realizable" ELSE "unrealizable"
    /\ UNCHANGED <<spec, locals, arrays, winningRegion, jxs, killed, strat,
                   error, dual, cache, units, play>>

-----------------------------------------------------------------------------
(* Strategy.calcStrategy.  The strategy is a BDD over the game's variables  *)
(* and the memory jx: a set of <<t, jx, jx'>> with t an assignment.         *)

\* BDD.__floordiv__ (restrict): the result agrees with f on the care set c
\* and is what the minimisation makes of it elsewhere.
restrict(f, c) ==
    CASE dc = "keep" -> f
      [] dc = "zero" -> f \cap c
      [] OTHER -> f \cup Not(c)

\* All <<t, jx, jx'>> over the memory values 0 .. k-1.
WithMemory(k) ==
    {<<t, a, b>> : t \in ONE, a \in 0 .. (k - 1), b \in 0 .. (k - 1)}

\* restrict of a BDD over the game's variables and jx by a set of states
restrictjx(f, c) ==
    CASE dc = "keep" -> f
      [] dc = "zero" -> {e \in f : e[1] \in c}
      [] OTHER -> f \cup {e \in WithMemory(n) : e[1] \notin c}

\* WinningRegion.reachableStates
RECURSIVE reachLoop(_, _, _, _)
reachLoop(reach, old_reach, trans, invar) ==
    IF old_reach = reach
    THEN reach
    ELSE LET kept == reach \cap invar
             tmp == andExists(kept, trans, PresentIn \cup PresentOut)
         IN  reachLoop(kept \cup swapVariables(tmp), reach, trans, invar)

reachableStates(init, trans, invar) == reachLoop(init \cap invar, ZERO, trans, invar)

\* mod_trans / (jx = k): the value of jx' the counter's relation gives for k
jxNext(k) == CHOOSE kp \in 0 .. (n - 1) : <<k, kp>> \in transitionjx

\* The loops over r and i of _calc_rho3 for one j (an index of the arrays).
RECURSIVE rho3_tmp(_, _, _, _, _)
rho3_tmp(jj, rr, ii, low, tmp) ==
    IF rr > Len(xArray[jj])
    THEN tmp
    ELSE IF ii > Len(xArray[jj][rr])
    THEN rho3_tmp(jj, rr + 1, 1, low, tmp)
    ELSE LET xe == xArray[jj][rr][ii]
             next_x == swapVariables(xe)
             move == restrict(xe, reachable_states)
                         \cap restrict(Not(low), reachable_states)
                         \cap Not(spec.assumptions[ii]) \cap next_x
         IN  rho3_tmp(jj, rr, ii + 1, low \cup xe, tmp \cup move)

\* _calc_rho3 with jx advanced by the counter's relation
calc_rho3_advances_jx ==
    UNION {{<<t, jj - 1, jxNext(jj - 1)>> : t \in rho3_tmp(jj, 1, 1, ZERO, ZERO) \cap spec.trans12}
           : jj \in 1 .. n}

\* Strategy._calc_rho3
calc_rho3 ==
    UNION {{<<t, jj - 1, jj - 1>> : t \in rho3_tmp(jj, 1, 1, ZERO, ZERO) \cap spec.trans12}
           : jj \in 1 .. n}

\* The loop over r of _calc_rho2 for one j, from the r-th entry on.
RECURSIVE rho2_tmp(_, _, _, _)
rho2_tmp(jj, rr, low, tmp) ==
    IF rr > Len(yArray[jj])
    THEN tmp
    ELSE LET next_low == swapVariables(low)
             move == restrict(yArray[jj][rr], reachable_states)
                         \cap restrict(Not(low), reachable_states) \cap next_low
         IN  rho2_tmp(jj, rr + 1, low \cup yArray[jj][rr], tmp \cup move)

\* _calc_rho2 with its loop over r started one entry late
calc_rho2_late ==
    UNION {{<<t, jj - 1, jj - 1>> : t \in rho2_tmp(jj, 3, yArray[jj][1], ZERO) \cap spec.trans12}
           : jj \in 1 .. n}

\* _calc_rho2 with its moves taken from jx = 0
calc_rho2_from_zero ==
    UNION {{<<t, 0, jj - 1>> : t \in rho2_tmp(jj, 2, yArray[jj][1], ZERO) \cap spec.trans12}
           : jj \in 1 .. n}

\* Strategy._calc_rho2
calc_rho2 ==
    UNION {{<<t, jj - 1, jj - 1>> : t \in rho2_tmp(jj, 2, yArray[jj][1], ZERO) \cap spec.trans12}
           : jj \in 1 .. n}

\* _calc_rho1 leaving jx as it is
calc_rho1_same_jx ==
    LET next_winRegion == swapVariables(winningRegion)
        rho1(jj) == spec.guarantees[jj] \cap winningRegion \cap spec.trans12
                        \cap next_winRegion
    IN  UNION {{<<t, jj - 1, jj - 1>> : t \in rho1(jj)} : jj \in 1 .. n}

\* _calc_rho1 without the conjunct next_winRegion
calc_rho1_leaves_region ==
    LET rho1(jj) == spec.guarantees[jj] \cap winningRegion \cap spec.trans12
    IN  UNION {{<<t, jj - 1, jxNext(jj - 1)>> : t \in rho1(jj)} : jj \in 1 .. n}

\* _calc_rho1 with jx' = 0 in every move
calc_rho1_resets_jx ==
    LET next_winRegion == swapVariables(winningRegion)
        rho1(jj) == spec.guarantees[jj] \cap winningRegion \cap spec.trans12
                        \cap next_winRegion
    IN  UNION {{<<t, jj - 1, 0>> : t \in rho1(jj)} : jj \in 1 .. n}

\* Strategy._calc_rho1
calc_rho1 ==
    LET next_winRegion == swapVariables(winningRegion)
        rho1(jj) == spec.guarantees[jj] \cap winningRegion \cap spec.trans12
                        \cap next_winRegion
    IN  UNION {{<<t, jj - 1, jxNext(jj - 1)>> : t \in rho1(jj)} : jj \in 1 .. n}

afterWin == <<spec, locals, winningRegion, inits, jxs, realizable, dual, cache, units,
              play>>

\* calcStrategy up to the first rho: the reachable states, n and strategy
StratBegin ==
    /\ pc = "realizable"
    /\ reachable_states' = reachableStates(init12, spec.trans12, ONE)
    /\ strategy' = {}
    /\ IF n = 0
       THEN error' = "MardukException" /\ pc' = "strategy_error"
       ELSE error' = error /\ pc' = "rho3"
    /\ dc' \in {"keep", "zero", "one"}
    /\ UNCHANGED <<afterWin, arrays, killed>>

\* strategy += _calc_rho3 without killXArrays
Rho3_keeps_xArray ==
    /\ pc = "rho3"
    /\ IF m = 0
       THEN /\ error' = "NameError"
            /\ pc' = "strategy_error"
            /\ UNCHANGED strategy
       ELSE /\ strategy' = strategy \cup calc_rho3
            /\ pc' = "rho2"
            /\ error' = error
    /\ UNCHANGED <<afterWin, arrays, dc, reachable_states, killed>>

\* strategy += _calc_rho3; killXArrays
Rho3 ==
    /\ pc = "rho3"
    /\ IF m = 0
       THEN /\ error' = "NameError"
            /\ pc' = "strategy_error"
            /\ UNCHANGED <<strategy, killed>>
       ELSE /\ strategy' = strategy \cup calc_rho3
            /\ killed' = killed \cup {"xArray"}
            /\ pc' = "rho2"
            /\ error' = error
    /\ UNCHANGED <<afterWin, arrays, dc, reachable_states>>

\* _calc_rho2 passing over a guarantee without recorded iterates of y
Rho2_skips_empty ==
    /\ pc = "rho2"
    /\ IF \E jj \in 1 .. n : Len(yArray[jj]) = 0
       THEN UNCHANGED strategy
       ELSE strategy' = strategy \cup calc_rho2
    /\ killed' = killed \cup {"yArray"}
    /\ pc' = "rho1"
    /\ error' = error
    /\ UNCHANGED <<afterWin, arrays, dc, reachable_states>>

\* strategy += _calc_rho2; killYArrays
Rho2 ==
    /\ pc = "rho2"
    /\ IF \E jj \in 1 .. n : Len(yArray[jj]) = 0
       THEN /\ error' = "KeyError"
            /\ pc' = "strategy_error"
            /\ UNCHANGED <<strategy, killed>>
       ELSE /\ strategy' = strategy \cup calc_rho2
            /\ killed' = killed \cup {"yArray"}
            /\ pc' = "rho1"
            /\ error' = error
    /\ UNCHANGED <<afterWin, arrays, dc, reachable_states>>

\* strategy += _calc_rho1; the kills; strategy //= reachable_states
Rho1 ==
    /\ pc = "rho1"
    /\ strategy' = restrictjx(strategy \cup calc_rho1, reachable_states)
    /\ killed' = killed \cup {"xArray", "yArray", "transition", "transitionjx",
                              "assumptions", "guarantees"}
    /\ pc' = "strategy_done"
    /\ UNCHANGED <<afterWin, arrays, dc, reachable_states, error>>

calcStrategy == StratBegin \/ Rho3 \/ Rho2 \/ Rho1

\* WinningRegion.getxArray (the property X): the array, or the exception it
\* raises once the field is None
getxArray ==
    IF "xArray" \in killed
    THEN [raises |-> "xArray BDD not initialized or killed!", returns |-> <<>>]
    ELSE [raises |-> "", returns |-> xArray]

\* WinningRegion.getyArray (the property Y)
getyArray ==
    IF "yArray" \in killed
    THEN [raises |-> "yArray BDD not initialized or killed!", returns |-> <<>>]
    ELSE [raises |-> "", returns |-> yArray]

-----------------------------------------------------------------------------
(* A play of the game against the strategy: the environment picks the next *)
(* input, the system a next output and a next jx the strategy allows.       *)

EnvMoves(s) == {ip \in In : <<s[1], s[2], ip, 0>> \in spec.trans1}
SysMoves(s, k, ip) ==
    {mv \in Out \X (0 .. (n - 1)) : <<<<s[1], s[2], ip, mv[1]>>, k, mv[2]>> \in strategy}

\* the play starts in an initial state, with jx = 0
PlayStart ==
    /\ pc = "strategy_done"
    /\ ps' \in StatesOf(init12)
    /\ jxv' \in initjx
    /\ pc' = "play"
    /\ UNCHANGED <<spec, locals, arrays, winningRegion, inits, jxs, killed,
                   realizable, strat, error, dual, cache, units, ixv, tick>>

PlayStep ==
    /\ pc = "play"
    /\ \E ip \in EnvMoves(ps) : \E mv \in SysMoves(ps, jxv, ip) :
          /\ ps' = <<ip, mv[1]>>
          /\ jxv' = mv[2]
    /\ tick' = 1 - tick
    /\ UNCHANGED <<spec, pc, locals, arrays, winningRegion, inits, jxs, killed,
                   realizable, strat, error, dual, cache, units, ixv>>

\* the play ends: no next input is allowed, or the strategy has no answer
PlayEnd ==
    /\ pc = "play"
    /\ \A ip \in EnvMoves(ps) : SysMoves(ps, jxv, ip) = {}
    /\ pc' = "play_end"
    /\ UNCHANGED <<spec, locals, arrays, winningRegion, inits, jxs, killed,
                   realizable, strat, error, dual, cache, units, play>>


-----------------------------------------------------------------------------
(* CounterstrategyComputer: the environment's winning region and its       *)
(* counterstrategy.  The entry of a Python list at index k is the entry of *)
(* the sequence at k + 1.                                                   *)

\* CounterstrategyComputer._coax_env_input
coax_env_input(states) ==
    LET swapped_states == swapVariables(states)
        target_or_forbidden == Not(spec.trans2) \cup swapped_states
        env_moves_to_target == forall(target_or_forbidden, NextOut)
    IN  env_moves_to_target \cap spec.trans1

\* _coax_env asking for one output to reach the target
coax_env_exists(states) ==
    LET swapped_states == swapVariables(states)
        target_or_forbidden == Not(spec.trans2) \cup swapped_states
        env_moves_to_target == exists(target_or_forbidden, NextOut)
    IN  andExists(env_moves_to_target, spec.trans1, NextIn)

\* _coax_env with a next input env_trans need not allow
coax_env_any_input(states) ==
    LET swapped_states == swapVariables(states)
        target_or_forbidden == Not(spec.trans2) \cup swapped_states
        env_moves_to_target == forall(target_or_forbidden, NextOut)
    IN  exists(env_moves_to_target, NextIn)

\* CounterstrategyComputer._coax_env
coax_env(states) ==
    LET swapped_states == swapVariables(states)
        target_or_forbidden == Not(spec.trans2) \cup swapped_states
        env_moves_to_target == forall(target_or_forbidden, NextOut)
    IN  andExists(env_moves_to_target, spec.trans1, NextIn)

Last(s) == s[Len(s)]

\* set_element_4d over one run of the loop over X: the iterates `written`
\* replace the head of the list, what it held beyond them stays.
set_elements(old, written) ==
    IF Len(old) > Len(written)
    THEN written \o SubSeq(old, Len(written) + 1, Len(old))
    ELSE written

\* winm_env's loop over X for assumption ii: the iterates X at c = 0, 1, ...
RECURSIVE loopX(_, _, _, _, _)
loopX(X, X_old, const_for_i_loop, ii, written) ==
    IF X = X_old
    THEN written
    ELSE LET nX == const_for_i_loop \cap (spec.assumptions[ii] \cup coax_env(X))
         IN  loopX(nX, X, const_for_i_loop, ii, Append(written, nX))

RECURSIVE interAll(_, _)
interAll(sets, k) == IF k = 0 THEN ONE ELSE sets[k] \cap interAll(sets, k - 1)

RECURSIVE unionAll(_, _)
unionAll(sets, k) == IF k = 0 THEN ZERO ELSE sets[k] \cup unionAll(sets, k - 1)

\* winm_env's loop over Y for one guarantee: Y and x_array[a][j]
RECURSIVE loopY(_, _, _, _)
loopY(Y, Y_old, const_for_y_loop, xs) ==
    IF Y = Y_old
    THEN [Y |-> Y, x |-> xs]
    ELSE LET const_for_i_loop == const_for_y_loop \cap coax_env(Y)
             written == [ii \in 1 .. m |->
                            loopX(ZERO, ONE, const_for_i_loop, ii, <<ZERO>>)]
             interX == interAll([ii \in 1 .. m |-> Last(written[ii])], m)
         IN  loopY(interX, Y, const_for_y_loop,
                   [ii \in 1 .. m |-> set_elements(xs[ii], written[ii])])

\* set_element_2d and set_element_4d pad the first dimension with empty lists
padded(array, row) == Append(IF array = <<>> THEN << <<>> >> ELSE array, row)

\* winm_env's loop over Z
RECURSIVE loopZ(_, _, _, _, _, _)
loopZ(Z, Z_old, za, ya, xa, early_abort) ==
    IF Z = Z_old
    THEN [Z |-> Z, z_array |-> za, y_array |-> ya, x_array |-> xa]
    ELSE LET coax_env_Z == coax_env(Z)
             ys == [jj \in 1 .. n |->
                       loopY(ONE, ZERO, Not(spec.guarantees[jj]) \cup coax_env_Z,
                             [ii \in 1 .. m |-> <<>>])]
             unionY == unionAll([jj \in 1 .. n |-> ys[jj].Y], n)
             za2 == Append(za, unionY)
             ya2 == IF n = 0 THEN ya ELSE padded(ya, [jj \in 1 .. n |-> ys[jj].Y])
             xa2 == IF n = 0 \/ m = 0 THEN xa
                    ELSE padded(xa, [jj \in 1 .. n |-> ys[jj].x])
         IN  IF early_abort /\ spec.init12 \subseteq unionY
             THEN [Z |-> unionY, z_array |-> za2, y_array |-> ya2, x_array |-> xa2]
             ELSE loopZ(unionY, Z, za2, ya2, xa2, early_abort)

\* CounterstrategyComputer.winm_env
winm_env(early_abort) == loopZ(ZERO, ONE, <<ZERO>>, <<>>, <<>>, early_abort)

afterSolve == <<spec, locals, arrays, winningRegion, inits, jxs, killed,
                realizable, reachable_states, strategy>>

\* SpecDebugger._compute_counterstrategy calls winm_env(True); a caller that
\* wants the whole region calls winm_env(False) once the game is solved.
\* What restrict does is fixed before strategy_env_fast first uses it.
WinmEnv ==
    /\ pc \in {"unrealizable", "win_done"}
    /\ LET res == winm_env(pc = "unrealizable")
       IN  /\ envZ' = res.Z
           /\ z_array' = res.z_array
           /\ y_array' = res.y_array
           /\ x_array' = res.x_array
    /\ \/ pc = "unrealizable" /\ pc' = "winm_done" /\ dc' \in {"keep", "zero", "one"}
       \/ pc = "win_done" /\ pc' = "dual_done" /\ dc' = dc
    /\ UNCHANGED <<afterSolve, error, counterstrategy, utils_init, play,
                   arg_states, mixed_preimage, cache, units>>

\* All <<t, ix, ix', jx, jx'>>: ix counts modulo m, jx modulo n + 1.
WithMemories ==
    {<<t, a, b, c, d>> : t \in ONE, a \in 0 .. (m - 1), b \in 0 .. (m - 1),
                          c \in 0 .. n, d \in 0 .. n}

\* BDDs over the game's variables, ix and jx
game(f) == {e \in WithMemories : e[1] \in f}
ix_equal(k) == {e \in WithMemories : e[2] = k}
ixnext_equal(k) == {e \in WithMemories : e[3] = k}
jx_equal(k) == {e \in WithMemories : e[4] = k}
jxnext_equal(k) == {e \in WithMemories : e[5] = k}

\* restrict of such a BDD by a set of states
restrictijx(f, c) ==
    CASE dc = "keep" -> f
      [] dc = "zero" -> {e \in f : e[1] \in c}
      [] OTHER -> f \cup {e \in WithMemories : e[1] \notin c}

\* CounterstrategyComputer._compute_reachable_states
compute_reachable_states == reachLoop(spec.init12, ONE, spec.trans12, ONE)

\* strategy_env_fast: what the body of the loop over c adds for a, j and i
\* (indices of the sequences)
rho4(a, jj, ii, const_for_c_loop, reachable) ==
    LET xs == x_array[a][jj][ii]
    IN  UNION {restrictijx(const_for_c_loop
                             \cap game(xs[c] \cap Not(xs[c - 1])
                                         \cap coax_env_input(xs[c - 1])),
                           reachable) : c \in 2 .. Len(xs)}

\* strategy_env_fast: what the body of the loop over j adds for a and j
rho234(a, jj, const_for_j_loop, reachable) ==
    LET const_for_i_loop ==
            restrictijx(const_for_j_loop \cap jxnext_equal(jj), reachable)
        const_for_i_loop2 ==
            restrictijx(const_for_i_loop \cap game(coax_env_input(y_array[a][jj])),
                        reachable)
        const_for_i_loop_r2 == const_for_i_loop2 \cap jx_equal(0)
        const_for_i_loop_r3 == const_for_i_loop2 \cap jx_equal(jj)
        body(ii) ==
            LET const_for_c_loop ==
                    restrictijx(const_for_i_loop \cap ix_equal(ii - 1)
                                    \cap jx_equal(jj) \cap ixnext_equal(ii - 1),
                                reachable)
                tmp_rho2 == restrictijx(ix_equal(ii - 1) \cap ixnext_equal(ii - 1)
                                            \cap const_for_i_loop_r2, reachable)
                tmp_rho3 == restrictijx(ix_equal(ii - 1) \cap ixnext_equal(ii % m)
                                            \cap const_for_i_loop_r3
                                            \cap game(spec.assumptions[ii]),
                                        reachable)
            IN  rho4(a, jj, ii, const_for_c_loop, reachable) \cup tmp_rho2 \cup tmp_rho3
    IN  UNION {body(ii) : ii \in 1 .. m}

\* the body of the loop over a keeping, for rho2 to rho4, the states the
\* environment can force into z_array[a-1]
rho1234_keeps_forced(a, reachable) ==
    LET also_needed_for_rho1 == z_array[a] \cap Not(z_array[a - 1]) \cap spec.trans1
        const_for_j_loop == restrictijx(game(also_needed_for_rho1), reachable)
        const_for_rho1_loop ==
            restrictijx(game(also_needed_for_rho1 \cap coax_env_input(z_array[a - 1]))
                            \cap jxnext_equal(0), reachable)
        tmp_rho1(ii) == restrictijx(ix_equal(ii - 1) \cap ixnext_equal(ii - 1)
                                        \cap const_for_rho1_loop, reachable)
    IN  UNION {tmp_rho1(ii) : ii \in 1 .. m}
            \cup UNION {rho234(a, jj, const_for_j_loop, reachable) : jj \in 1 .. n}

\* strategy_env_fast: what the body of the loop over a adds
rho1234(a, reachable) ==
    LET also_needed_for_rho1 == z_array[a] \cap Not(z_array[a - 1]) \cap spec.trans1
        force_z_a_1 == coax_env(z_array[a - 1])
        const_for_j_loop ==
            restrictijx(game(also_needed_for_rho1 \cap Not(force_z_a_1)), reachable)
        const_for_rho1_loop ==
            restrictijx(game(also_needed_for_rho1 \cap coax_env_input(z_array[a - 1]))
                            \cap jxnext_equal(0), reachable)
        tmp_rho1(ii) == restrictijx(ix_equal(ii - 1) \cap ixnext_equal(ii - 1)
                                        \cap const_for_rho1_loop, reachable)
    IN  UNION {tmp_rho1(ii) : ii \in 1 .. m}
            \cup UNION {rho234(a, jj, const_for_j_loop, reachable) : jj \in 1 .. n}

\* strategy_env_fast with its loop over a started one entry late
strategy_env_fast_late ==
    LET reachable == compute_reachable_states
    IN  UNION {rho1234(a, reachable) : a \in 3 .. Len(z_array)}

\* CounterstrategyComputer.strategy_env_fast(z_array, y_array, x_array)
strategy_env_fast ==
    LET reachable == compute_reachable_states
    IN  UNION {rho1234(a, reachable) : a \in 2 .. Len(z_array)}

\* strategy_env_fast(z_array, y_array, x_array, restrict = False): reachable
\* is ONE
strategy_env_fast_unrestricted ==
    UNION {rho1234(a, ONE) : a \in 2 .. Len(z_array)}

\* strategy_env: the states of z_array[a] that are not in z_array[a-1], for
\* a an index of the sequence, with the next inputs env_trans allows
env_region(a) == z_array[a] \cap Not(z_array[a - 1]) \cap spec.trans1

\* strategy_env: the product of a BDD f over the game's variables with
\* ix = a, ix' = b, jx = c and jx' = d
product(f, a, b, c, d) == {<<t, a, b, c, d>> : t \in f}

\* strategy_env: rho1, which leaves jx free
env_rho1 ==
    UNION {product(env_region(a) \cap coax_env_input(z_array[a - 1]),
                   ii - 1, ii - 1, c, 0)
           : ii \in 1 .. m, a \in 2 .. Len(z_array), c \in 0 .. n}

\* strategy_env: rho2
env_rho2 ==
    UNION {product(env_region(a) \cap coax_env_input(y_array[a][jj])
                       \cap Not(coax_env(z_array[a - 1])),
                   ii - 1, ii - 1, 0, jj)
           : a \in 2 .. Len(z_array), jj \in 1 .. n, ii \in 1 .. m}

\* strategy_env: rho3
env_rho3 ==
    UNION {product(spec.assumptions[ii] \cap env_region(a)
                       \cap coax_env_input(y_array[a][jj])
                       \cap Not(coax_env(z_array[a - 1])),
                   ii - 1, ii % m, jj, jj)
           : a \in 2 .. Len(z_array), jj \in 1 .. n, ii \in 1 .. m}

\* strategy_env: what rho4 holds for a, j and i
env_rho4_c(a, jj, ii) ==
    LET xs == x_array[a][jj][ii]
    IN  UNION {product(xs[c] \cap Not(xs[c - 1]) \cap env_region(a)
                           \cap coax_env_input(xs[c - 1])
                           \cap Not(coax_env(z_array[a - 1])),
                       ii - 1, ii - 1, jj, jj)
               : c \in 2 .. Len(xs)}

\* strategy_env: rho4
env_rho4 ==
    UNION {env_rho4_c(a, jj, ii)
           : a \in 2 .. Len(z_array), jj \in 1 .. n, ii \in 1 .. m}

\* CounterstrategyComputer.strategy_env(z_array, y_array, x_array)
strategy_env == env_rho1 \cup env_rho2 \cup env_rho3 \cup env_rho4

\* _compute_counterstrategy after winm_env: the counterstrategy, and the
\* initial states narrowed to the environment's region
StrategyEnvFast ==
    /\ pc = "winm_done"
    /\ UNCHANGED <<spec, locals, arrays, winningRegion, inits, jxs, realizable,
                   strat, envZ, z_array, y_array, x_array, play,
                   arg_states, mixed_preimage, cache, units>>
    /\ IF m = 0
       THEN /\ error' = "ValueError"
            /\ pc' = "counter_error"
            /\ UNCHANGED <<counterstrategy, utils_init, killed>>
       ELSE /\ counterstrategy' = strategy_env_fast
            /\ killed' = killed \cup {"y_array", "x_array"}
            /\ utils_init' = IF spec.init12 \subseteq envZ
                             THEN spec.init12
                             ELSE (spec.init1 \cap envZ) \cap (spec.init2 \cap envZ)
            /\ pc' = "counter_done"
            /\ error' = error

-----------------------------------------------------------------------------
(* A play of the game against the counterstrategy: the environment picks a *)
(* next input, ix and jx the counterstrategy allows, the system any next   *)
(* output its transition relation allows.                                  *)

CounterMoves(s, ki, kj) ==
    {mv \in In \X (0 .. (m - 1)) \X (0 .. n) :
        <<<<s[1], s[2], mv[1], 0>>, ki, mv[2], kj, mv[3]>> \in counterstrategy}
Answers(s, ip) == {op \in Out : <<s[1], s[2], ip, op>> \in spec.trans2}

untouched == <<spec, locals, arrays, winningRegion, inits, jxs, killed,
               realizable, strat, error, dual, cache, units>>

CounterPlayStart ==
    /\ pc = "counter_done"
    /\ ps' \in StatesOf(utils_init)
    /\ ixv' = 0
    /\ jxv' = 0
    /\ pc' = "counterplay"
    /\ UNCHANGED <<untouched, tick>>

CounterPlayStep ==
    /\ pc = "counterplay"
    /\ \E mv \in CounterMoves(ps, ixv, jxv) : \E op \in Answers(ps, mv[1]) :
          /\ ps' = <<mv[1], op>>
          /\ ixv' = mv[2]
          /\ jxv' = mv[3]
    /\ tick' = 1 - tick
    /\ UNCHANGED <<pc, untouched>>

\* the environment picked an input the system has no output for
CounterPlaySystemLost ==
    /\ pc = "counterplay"
    /\ \E mv \in CounterMoves(ps, ixv, jxv) : Answers(ps, mv[1]) = {}
    /\ pc' = "system_lost"
    /\ UNCHANGED <<untouched, play>>

\* the counterstrategy has no move for the environment
CounterPlayNoMove ==
    /\ pc = "counterplay"
    /\ CounterMoves(ps, ixv, jxv) = {}
    /\ pc' = "no_counter_move"
    /\ UNCHANGED <<untouched, play>>

-----------------------------------------------------------------------------
(* FunctionCache and its CacheTree, for one classification vector.  A wire *)
(* is kept by the size of the support of its function.                     *)

Max(a, b) == IF a > b THEN a ELSE b

RECURSIVE MaxOf(_)
MaxOf(wires) == IF wires = <<>> THEN 0 ELSE Max(Head(wires), MaxOf(Tail(wires)))

\* Leaf.add_wire
add_wire(leaf, support) ==
    [present |-> TRUE, wires |-> Append(leaf.wires, support),
     max_support |-> Max(leaf.max_support, support)]

\* The wires of a leaf without the first one of the given support.
RECURSIVE new_wires(_, _)
new_wires(wires, support) ==
    IF wires = <<>> THEN <<>>
    ELSE IF Head(wires) = support THEN Tail(wires)
    ELSE <<Head(wires)>> \o new_wires(Tail(wires), support)

\* Leaf.remove_wire
leaf_remove_wire(leaf, support) ==
    LET kept == new_wires(leaf.wires, support)
    IN  [present |-> TRUE, wires |-> kept, max_support |-> MaxOf(kept)]

\* Node.remove_wire at the root: the one-child if its maxSupport is the
\* support, else the zero-child if there is one; then the root's maxSupport
remove_wire(tree, support) ==
    LET in_one == tree.one_child.present /\ tree.one_child.max_support = support
        one == IF in_one THEN leaf_remove_wire(tree.one_child, support)
               ELSE tree.one_child
        zero == IF ~in_one /\ tree.zero_child.present
                THEN leaf_remove_wire(tree.zero_child, support)
                ELSE tree.zero_child
    IN  [tree EXCEPT !.one_child = one, !.zero_child = zero,
                     !.max_support = Max(one.max_support, zero.max_support)]

\* CacheTree.remove_biggest
remove_biggest(tree) ==
    remove_wire([tree EXCEPT !.num_entries = @ - 1], tree.max_support)

\* CacheTree.insert: Node.get_child at the root, then Leaf.add_wire
insert(tree, signature, support) ==
    LET one == IF signature = 1
               THEN add_wire(IF tree.one_child.present THEN tree.one_child
                             ELSE NewLeaf, support)
               ELSE tree.one_child
        zero == IF signature = 0
                THEN add_wire(IF tree.zero_child.present THEN tree.zero_child
                              ELSE NewLeaf, support)
                ELSE tree.zero_child
    IN  [num_entries |-> tree.num_entries + 1,
         one_child |-> one, zero_child |-> zero,
         max_support |-> Max(tree.max_support, support)]

\* CacheTree.clear: Node.clear_leafs at the root
clear(tree) ==
    [tree EXCEPT !.one_child = IF @.present THEN NewLeaf ELSE @,
                 !.zero_child = IF @.present THEN NewLeaf ELSE @]

\* __set_cache_size: while(self.__max_cache_size < len(self.__cachetree))
RECURSIVE shrink(_, _)
shrink(tree, value) ==
    IF value < tree.num_entries THEN shrink(remove_biggest(tree), value) ELSE tree

cacheRest == <<spec, pc, locals, arrays, winningRegion, inits, jxs, killed,
               realizable, strat, error, dual, units, play>>

\* The number of entries and of wires update is called with is bounded.
Room ==
    /\ cachetree.num_entries < MaxEntries
    /\ Len(cachetree.one_child.wires) + Len(cachetree.zero_child.wires) < MaxEntries

\* cacheSize = value  (FunctionCache.__set_cache_size)
SetCacheSize ==
    /\ pc = "cache"
    /\ \E value \in {None} \cup (0 .. MaxCacheSize) :
          /\ max_cache_size' = value
          /\ caching_enabled' = (value # 0)
          /\ cachetree' = IF value = 0 THEN clear(cachetree)
                          ELSE IF value # None THEN shrink(cachetree, value)
                          ELSE cachetree
    /\ UNCHANGED cacheRest

\* FunctionCache.update(r, signal), r a function with the signature and the
\* support given
update ==
    /\ pc = "cache" /\ Room
    /\ \E signature \in {0, 1}, support_size \in 0 .. MaxSupport :
          cachetree' =
              IF caching_enabled
              THEN LET shrunk ==
                           IF max_cache_size # None
                                /\ cachetree.num_entries > max_cache_size
                           THEN remove_biggest(cachetree)
                           ELSE cachetree
                   IN  insert(shrunk, signature, support_size)
              ELSE cachetree
    /\ UNCHANGED <<max_cache_size, caching_enabled, cacheRest>>

\* A function cache on its own: its construction, then calls of the setter
\* of cacheSize and of update in any order.
CacheInit ==
    /\ spec = OutIsOne
    /\ pc = "cache"
    /\ arg_states = ZERO /\ mixed_preimage = ZERO
    /\ z = ZERO /\ old_z = ZERO
    /\ y = ZERO /\ old_y = ZERO /\ x = ZERO /\ old_x = ZERO /\ start = ZERO
    /\ j = 0 /\ r = 0 /\ i = 0
    /\ xArray = <<>>
    /\ yArray = <<>>
    /\ winningRegion = ZERO
    /\ init1 = ZERO /\ init2 = ZERO /\ init12 = ZERO
    /\ transitionjx = {} /\ initjx = {}
    /\ killed = {}
    /\ realizable = FALSE
    /\ dc = "keep"
    /\ reachable_states = ZERO /\ strategy = {}
    /\ error = ""
    /\ envZ = ZERO /\ z_array = <<>> /\ y_array = <<>> /\ x_array = <<>>
    /\ counterstrategy = {}
    /\ utils_init = ZERO
    /\ NewCache
    /\ NewUnits
    /\ ps = <<0, 0>> /\ jxv = 0 /\ ixv = 0 /\ tick = 0

CacheNext == SetCacheSize \/ update

CacheSpec == CacheInit /\ [][CacheNext]_vars

-----------------------------------------------------------------------------
(* DeltaDebugger (spec_debug/minimizer.py).  The elements of the list are  *)
(* numbers; the test of the minimization target fails on a list exactly    *)
(* when the list holds every element of one of the sets in `causes`, so    *)
(* that it fails on every list that holds a list it fails on.              *)

Range(list) == {list[k] : k \in 1 .. Len(list)}

\* self.test_function(subset, spaces): False when the test fails
test(list) == ~ \E c \in causes : c \subseteq Range(list)

Min(a, b) == IF a < b THEN a ELSE b

\* _try_subsets and _try_complements: the value of `first` in the k-th round
\* of the loop (k from 0); the first `reminder` subsets have step_size + 1
\* elements.  len(elements) / nr_of_subsets is the division of integers.
first(len, nr_of_subsets, k) ==
    LET step_size == len \div nr_of_subsets
        reminder == len % nr_of_subsets
    IN  k * step_size + Min(k, reminder)

\* elements[first:last+1] in round k
subset(elements, nr_of_subsets, k) ==
    SubSeq(elements, first(Len(elements), nr_of_subsets, k) + 1,
           first(Len(elements), nr_of_subsets, k + 1))

\* elements[:first] extended by elements[last+1:] in round k
complement_subset(elements, nr_of_subsets, k) ==
    SubSeq(elements, 1, first(Len(elements), nr_of_subsets, k))
        \o SubSeq(elements, first(Len(elements), nr_of_subsets, k + 1) + 1,
                  Len(elements))

\* What _try_subsets and _try_complements return: None, or a list.
NoList == [some |-> FALSE, list |-> <<>>]
List(list) == [some |-> TRUE, list |-> list]
\* `if result:` is taken for a list that is not empty
truthy(res) == res.some /\ res.list # <<>>

RECURSIVE ddmin2(_, _)
RECURSIVE try_subsets(_, _, _)
RECURSIVE try_complements(_, _, _)

\* DeltaDebugger._try_subsets, from round k of its loop on
try_subsets(elements, nr_of_subsets, k) ==
    IF k >= nr_of_subsets
    THEN NoList
    ELSE IF ~test(subset(elements, nr_of_subsets, k))
    THEN List(ddmin2(subset(elements, nr_of_subsets, k), 2))
    ELSE try_subsets(elements, nr_of_subsets, k + 1)

\* DeltaDebugger._try_complements, from round k of its loop on
try_complements(elements, nr_of_subsets, k) ==
    IF k >= nr_of_subsets
    THEN NoList
    ELSE IF ~test(complement_subset(elements, nr_of_subsets, k))
    THEN List(ddmin2(complement_subset(elements, nr_of_subsets, k),
                     Max(2, nr_of_subsets - 1)))
    ELSE try_complements(elements, nr_of_subsets, k + 1)

\* DeltaDebugger._ddmin2(elements, n, spaces)
ddmin2(elements, gran) ==
    IF gran > Len(elements)
    THEN elements
    ELSE LET subsets == try_subsets(elements, gran, 0)
             complements == IF gran > 2 THEN try_complements(elements, gran, 0)
                            ELSE subsets
         IN  IF truthy(subsets) THEN subsets.list
             ELSE IF truthy(complements) THEN complements.list
             ELSE IF gran < Len(elements)
             THEN ddmin2(elements, Min(2 * gran, Len(elements)))
             ELSE elements

\* DeltaDebugger.minimize and _ddmin
ddmin(elements) == ddmin2(elements, 2)

unitsRest == <<spec, locals, arrays, winningRegion, inits, jxs, killed,
               realizable, strat, error, dual, cache, play>>

\* result = self.minimize(all_elements): the final solution
minimize ==
    /\ pc = "minimize"
    /\ solution' = ddmin(all_elements)
    /\ pc' = "minimize_done"
    /\ UNCHANGED <<all_elements, causes, bits, unitsRest>>

\* The delta debugger on its own: a list of distinct elements and a test,
\* then the call of minimize.
DebuggerInit ==
    /\ spec = OutIsOne
    /\ pc = "minimize"
    /\ all_elements \in {[k \in 1 .. len |-> k] : len \in 0 .. MaxElements}
    /\ causes \in {{c1, c2} : c1, c2 \in SUBSET (1 .. MaxElements)}
    /\ solution = <<>>
    /\ NewBits
    /\ arg_states = ZERO /\ mixed_preimage = ZERO
    /\ z = ZERO /\ old_z = ZERO
    /\ y = ZERO /\ old_y = ZERO /\ x = ZERO /\ old_x = ZERO /\ start = ZERO
    /\ j = 0 /\ r = 0 /\ i = 0
    /\ xArray = <<>>
    /\ yArray = <<>>
    /\ winningRegion = ZERO
    /\ init1 = ZERO /\ init2 = ZERO /\ init12 = ZERO
    /\ transitionjx = {} /\ initjx = {}
    /\ killed = {}
    /\ realizable = FALSE
    /\ dc = "keep"
    /\ reachable_states = ZERO /\ strategy = {}
    /\ error = ""
    /\ envZ = ZERO /\ z_array = <<>> /\ y_array = <<>> /\ x_array = <<>>
    /\ counterstrategy = {}
    /\ utils_init = ZERO
    /\ NewCache
    /\ ps = <<0, 0>> /\ jxv = 0 /\ ixv = 0 /\ tick = 0

DebuggerSpec == DebuggerInit /\ [][minimize]_vars

-----------------------------------------------------------------------------
(* WinningRegion._moduloInc over the bits of jx.  An assignment to the     *)
(* present (or to the next) bits is a sequence of 0 and 1, bit i of the    *)
(* code at index i + 1; a BDD over the present bits is a set of them, the  *)
(* relation a set of pairs <<present, next>>.                              *)

RECURSIVE Pow2(_)
Pow2(k) == IF k = 0 THEN 1 ELSE 2 * Pow2(k - 1)

\* one hot: present_states[i] and next_states[i], the bit i alone
present_state(k, nn) == [b \in 1 .. nn |-> IF b = k + 1 THEN 1 ELSE 0]

one_hot_relation(nn) ==
    {<<present_state(k, nn), present_state(k + 1, nn)>> : k \in 0 .. (nn - 2)}
        \cup {<<present_state(nn - 1, nn), present_state(0, nn)>>}

\* int(math.ceil(math.log(n, 2))), and 1 for n = 1
num_of_bits(nn) ==
    IF nn = 1 THEN 1 ELSE CHOOSE b \in 1 .. nn : Pow2(b) >= nn /\ Pow2(b - 1) < nn

\* binary: case_increase * case_reset.  carry(p, k) is the carry before bit
\* k (an index of the sequence), the product of the bits below it, and
\* selected(k) is bit k of bit_selector = n - 1.
binary_relation(nn) ==
    LET nb == num_of_bits(nn)
        carry(p, k) == IF \A b \in 1 .. (k - 1) : p[b] = 1 THEN 1 ELSE 0
        selected(k) == ((nn - 1) \div Pow2(k - 1)) % 2
        increase(p, q) == \A k \in 1 .. nb : q[k] = (carry(p, k) + p[k]) % 2
        reset_condition(p) == \A k \in 1 .. nb : p[k] = selected(k)
        reset_state(q) == \A k \in 1 .. nb : q[k] = 0
    IN  {pq \in [1 .. nb -> {0, 1}] \X [1 .. nb -> {0, 1}] :
            /\ reset_condition(pq[1]) \/ increase(pq[1], pq[2])
            /\ ~reset_condition(pq[1]) \/ reset_state(pq[2])}

\* _moduloInc with the reset to 0 left out of the binary relation
moduloInc_bits_without_reset ==
    /\ pc = "moduloInc"
    /\ trans_relation' =
           IF one_hot THEN one_hot_relation(arg_n)
           ELSE LET nb == num_of_bits(arg_n)
                    carry(p, k) == IF \A b \in 1 .. (k - 1) : p[b] = 1 THEN 1 ELSE 0
                IN  {pq \in [1 .. nb -> {0, 1}] \X [1 .. nb -> {0, 1}] :
                        \A k \in 1 .. nb :
                            pq[2][k] = (carry(pq[1], k) + pq[1][k]) % 2}
    /\ start_state' = IF one_hot THEN {present_state(0, arg_n)}
                      ELSE {[b \in 1 .. num_of_bits(arg_n) |-> 0]}
    /\ jp1' = start_state'
    /\ pc' = "jx"
    /\ UNCHANGED <<one_hot, arg_n, all_elements, causes, solution, unitsRest>>

\* self._moduloInc(n) for n > 0, and jp1 = start_state
moduloInc_bits ==
    /\ pc = "moduloInc"
    /\ trans_relation' = IF one_hot THEN one_hot_relation(arg_n)
                         ELSE binary_relation(arg_n)
    /\ start_state' = IF one_hot THEN {present_state(0, arg_n)}
                      ELSE {[b \in 1 .. num_of_bits(arg_n) |-> 0]}
    /\ jp1' = start_state'
    /\ pc' = "jx"
    /\ UNCHANGED <<one_hot, arg_n, all_elements, causes, solution, unitsRest>>

\* _calc_rho1's loop over j: jp1 = mod_trans / jp1, then the swap of the
\* next bits for the present ones
next_jp1 ==
    /\ pc = "jx"
    /\ jp1' = {pq[2] : pq \in {e \in trans_relation : e[1] \in jp1}}
    /\ UNCHANGED <<pc, one_hot, arg_n, trans_relation, start_state,
                   all_elements, causes, solution, unitsRest>>

\* The counter on its own: an encoding and an n, then _moduloInc and the
\* values of jx the loops of calcStrategy step through.
BitsInit ==
    /\ spec = OutIsOne
    /\ pc = "moduloInc"
    /\ one_hot \in BOOLEAN
    /\ arg_n \in 1 .. MaxCounter
    /\ trans_relation = {} /\ start_state = {} /\ jp1 = {}
    /\ all_elements = <<>> /\ causes = {} /\ solution = <<>>
    /\ arg_states = ZERO /\ mixed_preimage = ZERO
    /\ z = ZERO /\ old_z = ZERO
    /\ y = ZERO /\ old_y = ZERO /\ x = ZERO /\ old_x = ZERO /\ start = ZERO
    /\ j = 0 /\ r = 0 /\ i = 0
    /\ xArray = <<>>
    /\ yArray = <<>>
    /\ winningRegion = ZERO
    /\ init1 = ZERO /\ init2 = ZERO /\ init12 = ZERO
    /\ transitionjx = {} /\ initjx = {}
    /\ killed = {}
    /\ realizable = FALSE
    /\ dc = "keep"
    /\ reachable_states = ZERO /\ strategy = {}
    /\ error = ""
    /\ envZ = ZERO /\ z_array = <<>> /\ y_array = <<>> /\ x_array = <<>>
    /\ counterstrategy = {}
    /\ utils_init = ZERO
    /\ NewCache
    /\ ps = <<0, 0>> /\ jxv = 0 /\ ixv = 0 /\ tick = 0

BitsNext == moduloInc_bits \/ next_jp1

BitsSpec == BitsInit /\ [][BitsNext]_vars

Next ==
    \/ calcWinningRegion \/ isRealizable \/ calcStrategy
    \/ PlayStart \/ PlayStep \/ PlayEnd
    \/ WinmEnv \/ StrategyEnvFast
    \/ CounterPlayStart \/ CounterPlayStep \/ CounterPlaySystemLost
    \/ CounterPlayNoMove

Spec == Init /\ [][Next]_vars

Play == PlayStep \/ PlayEnd
CounterPlay == CounterPlayStep \/ CounterPlaySystemLost \/ CounterPlayNoMove

\* calcWinningRegion runs on while its loops have a step to take, and a play
\* goes on while a player has a move.
FairSpec ==
    /\ Spec
    /\ WF_vars(calcWinningRegion)
    /\ WF_vars(Play)
    /\ WF_vars(CounterPlay)

\* The run up to the answer of isRealizable.
SolverNext == calcWinningRegion \/ isRealizable

SolverSpec == Init /\ [][SolverNext]_vars

FairSolverSpec == SolverSpec /\ WF_vars(calcWinningRegion)

\* The run of a realizable game: the solver, calcStrategy, and the plays
\* against the strategy.
StrategyNext == SolverNext \/ calcStrategy \/ PlayStart \/ PlayStep \/ PlayEnd

StrategySpec == Init /\ [][StrategyNext]_vars

FairStrategySpec ==
    StrategySpec /\ WF_vars(calcWinningRegion) /\ WF_vars(Play)

\* The solver and the dual solver on the same game.
DualNext == SolverNext \/ WinmEnv

DualSpec == Init /\ [][DualNext]_vars

\* The run of an unrealizable game up to its counterstrategy, for the games
\* with the guarantee FALSE and the first games of the sample.
CounterInit ==
    /\ Init
    /\ spec.id > NumGames \/ spec.id <= NumCounterGames

CounterNext == SolverNext \/ WinmEnv \/ StrategyEnvFast

CounterSpec == CounterInit /\ [][CounterNext]_vars

\* _coax_env on its own: a game and any set of states as the argument, then
\* the call.
CoaxEnvInit ==
    /\ spec \in {Game(g) : g \in 1 .. NumCoaxGames}
    /\ pc = "coax_env"
    /\ arg_states \in {Lift(S) : S \in SUBSET States}
    /\ mixed_preimage = ZERO
    /\ z = ZERO /\ old_z = ZERO
    /\ y = ZERO /\ old_y = ZERO /\ x = ZERO /\ old_x = ZERO /\ start = ZERO
    /\ j = 0 /\ r = 0 /\ i = 0
    /\ xArray = <<>>
    /\ yArray = <<>>
    /\ winningRegion = ZERO
    /\ init1 = ZERO /\ init2 = ZERO /\ init12 = ZERO
    /\ transitionjx = {} /\ initjx = {}
    /\ killed = {}
    /\ realizable = FALSE
    /\ dc = "keep"
    /\ reachable_states = ZERO /\ strategy = {}
    /\ error = ""
    /\ envZ = ZERO /\ z_array = <<>> /\ y_array = <<>> /\ x_array = <<>>
    /\ counterstrategy = {}
    /\ utils_init = ZERO
    /\ NewCache
    /\ NewUnits
    /\ ps = <<0, 0>> /\ jxv = 0 /\ ixv = 0 /\ tick = 0

CoaxEnv ==
    /\ pc = "coax_env"
    /\ mixed_preimage' = coax_env(arg_states)
    /\ pc' = "coax_env_done"
    /\ UNCHANGED <<spec, locals, arrays, winningRegion, inits, jxs, killed,
                   realizable, strat, error, envZ, z_array, y_array, x_array,
                   counterstrategy, utils_init, arg_states, cache, units, play>>

CoaxEnvSpec == CoaxEnvInit /\ [][CoaxEnv]_vars


-----------------------------------------------------------------------------
(* The properties.                                                         *)

\* The states the definition of coax names for a set of states S: for every
\* next input, env_trans is false or some next output satisfies sys_trans
\* and leads into S.
CoaxStates(S) ==
    {s \in States :
        \A ip \in In :
            \/ <<s[1], s[2], ip, 0>> \notin spec.trans1
            \/ \E op \in Out : /\ <<s[1], s[2], ip, op>> \in spec.trans2
                               /\ <<ip, op>> \in S}

Cpre(f) == Lift(CoaxStates(StatesOf(f)))

\* The textbook fixpoint  nu Z. AND_j mu Y. OR_i nu X.
\*     (g_j and coax(Z)) or coax(Y) or (not a_i and coax(X)):
\* every X starts from ONE, Z is replaced once per round over all j.
RECURSIVE NuX(_, _, _, _, _)
NuX(X, Y, Z, jj, ii) ==
    LET nX == (spec.guarantees[jj] \cap Cpre(Z)) \cup Cpre(Y)
                  \cup (Not(spec.assumptions[ii]) \cap Cpre(X))
    IN  IF nX = X THEN X ELSE NuX(nX, Y, Z, jj, ii)

RECURSIVE MuY(_, _, _)
MuY(Y, Z, jj) ==
    LET nY == unionAll([ii \in 1 .. m |-> NuX(ONE, Y, Z, jj, ii)], m)
    IN  IF nY = Y THEN Y ELSE MuY(nY, Z, jj)

RECURSIVE NuZ(_)
NuZ(Z) ==
    LET nZ == interAll([jj \in 1 .. n |-> MuY(ZERO, Z, jj)], n)
    IN  IF nZ = Z THEN Z ELSE NuZ(nZ)

Holds(f, s) == <<s[1], s[2], 0, 0>> \in f

\* The play against the strategy is in a state of assumption k / guarantee k.
PlayInAssumption(k) == pc = "play" /\ (k > m \/ Holds(spec.assumptions[k], ps))
PlayInGuarantee(k) == pc = "play" /\ (k > n \/ Holds(spec.guarantees[k], ps))

\* C1: in a game with guarantees and assumptions that isRealizable reports
\* realizable, an infinite play from an initial state with jx = 0, whose
\* inputs satisfy env_trans and whose outputs and jx the strategy allows,
\* has every guarantee hold infinitely often if every assumption holds
\* infinitely often.
C1_StrategyPlaysSatisfyGR1 ==
    (\A k \in 1 .. MaxM : []<>PlayInAssumption(k))
        => (\A k \in 1 .. MaxN : []<>PlayInGuarantee(k))

\* a play of a game with two guarantees or more has reached the second
\* guarantee with memory jx = 1, in a region that is not everything
C1_Witness ==
    /\ pc = "play" /\ n >= 2 /\ m >= 1
    /\ jxv = 1 /\ tick = 1
    /\ Holds(spec.guarantees[2], ps)
    /\ winningRegion # ONE

\* C2: for a game with n >= 1 guarantees and m >= 1 assumptions, the region
\* calcWinningRegion returns (Z overwritten after each j, X started from Z)
\* equals the textbook fixpoint (Z replaced once per round, X started from
\* all states).
C2_GaussSeidelEqualsTextbook ==
    (pc = "win_done" /\ n >= 1 /\ m >= 1) => winningRegion = NuZ(ONE)

\* a game with two guarantees or more solved, with a region that is neither
\* empty nor everything and a loop over y of three iterations or more
C2_Witness ==
    /\ pc = "win_done" /\ n >= 2 /\ m >= 1
    /\ winningRegion \notin {ZERO, ONE}
    /\ \E jj \in 1 .. n : Len(yArray[jj]) >= 2

\* C3: isRealizable returns True exactly when for every input satisfying
\* init_env there is an output such that init_sys holds and the state lies
\* in the winning region.
C3_RealizableIffInitialOutput ==
    pc \in {"realizable", "unrealizable"} =>
        (realizable <=>
            \A a \in In : Holds(spec.init1, <<a, 0>>) =>
                \E b \in Out : /\ Holds(spec.init2, <<a, b>>)
                               /\ Holds(winningRegion, <<a, b>>))

\* isRealizable returned True although a state of init_sys is not winning
C3_Witness ==
    /\ pc = "realizable"
    /\ spec.init1 # ZERO
    /\ ~(spec.init2 \subseteq winningRegion)

\* The strategy has a move from state s with memory k.
HasMove(s, k) == \E e \in strategy : e[1][1] = s[1] /\ e[1][2] = s[2] /\ e[2] = k

ReachableWinning == StatesOf(reachable_states \cap winningRegion)

\* C4, for every state: after calcStrategy the strategy has a move from every
\* reachable state of the winning region, for every jx in [0, n).
C4_NoWinningStateIsDeadEnd ==
    pc = "strategy_done" =>
        \A s \in ReachableWinning : \A k \in 0 .. (n - 1) : HasMove(s, k)

\* C4, for the states with a next input: after calcStrategy the strategy has
\* a move from every reachable state of the winning region from which
\* env_trans allows a next input, for every jx in [0, n).
C4_NoWinningStateWithInputIsDeadEnd ==
    pc = "strategy_done" =>
        \A s \in ReachableWinning : \A k \in 0 .. (n - 1) :
            EnvMoves(s) # {} => HasMove(s, k)

\* the strategy of a game with two guarantees, whose reachable winning states
\* are not all states and all have a next input
C4_Witness ==
    /\ pc = "strategy_done" /\ n >= 2
    /\ Cardinality(ReachableWinning) >= 2
    /\ ReachableWinning # States
    /\ \A s \in ReachableWinning : EnvMoves(s) # {}

\* C5: the region winm_env(early_abort=False) returns is the complement of
\* the region of calcWinningRegion: every state is in exactly one of them.
C5_DualRegionIsComplement ==
    pc = "dual_done" =>
        \A s \in States : Holds(envZ, s) <=> ~Holds(winningRegion, s)

\* both players win from some state, and winm_env needed several rounds
C5_Witness ==
    /\ pc = "dual_done"
    /\ envZ \notin {ZERO, ONE}
    /\ Len(z_array) >= 4

\* The play against the counterstrategy is in a state of assumption k, or
\* from now on in no state of guarantee k.
CounterPlayInAssumption(k) ==
    pc = "counterplay" /\ (k > m \/ Holds(spec.assumptions[k], ps))
CounterPlayOutOfGuarantee(k) ==
    pc = "counterplay" /\ k <= n /\ ~Holds(spec.guarantees[k], ps)

\* C6: a play of an unrealizable game from an initial state of the
\* environment's region with ix = 0 and jx = 0, whose inputs the
\* counterstrategy allows and whose outputs sys_trans allows, is won by the
\* environment: the system runs out of outputs, or every assumption holds
\* infinitely often and some guarantee only finitely often.
C6_CounterstrategyPlaysAreWon ==
    <>(pc = "counterplay") =>
        \/ <>(pc = "system_lost")
        \/ /\ \A k \in 1 .. MaxM : []<>CounterPlayInAssumption(k)
           /\ \E k \in 1 .. MaxN : <>[]CounterPlayOutOfGuarantee(k)

\* The sets coax is applied to: before the solver runs every set of states,
\* while it runs its iterates.
CoaxArguments ==
    IF pc = "start" THEN {Lift(S) : S \in SUBSET States} ELSE {z, y, x}

\* C7: coax(S) is the set of the states s such that for every next input i'
\* env_trans(s, i') is false or some next output o' has sys_trans(s, i', o')
\* and (i', o') in S.
C7_CoaxIsControllablePredecessor ==
    \A f \in CoaxArguments :
        LET result == coax(f)
        IN  /\ StatesOf(result) = CoaxStates(StatesOf(f))
            /\ result = Lift(StatesOf(result))

\* coax of the iterate x is a proper, non-empty part of x
C7_Witness ==
    /\ pc = "x_test"
    /\ coax(x) \notin {ZERO, ONE}
    /\ coax(x) # x /\ coax(x) \subseteq x

\* C8: calcWinningRegion terminates: every run of it reaches the end of the
\* loop over Z.
C8_CalcWinningRegionTerminates == <>(pc = "win_done")

\* the loops ended for a game with two guarantees and two assumptions or
\* more, the last loop over y after three iterations or more
C8_Witness ==
    /\ pc = "win_done" /\ n >= 2 /\ m >= 2
    /\ Len(yArray[n]) >= 2
    /\ winningRegion # ZERO

\* A step of calcWinningRegion: an assignment to z (the overwrite after a
\* guarantee) and an iteration of the loop over x never add a state; an
\* iteration of the loop over y never removes one.
C9_Step ==
    /\ (pc = "y_test" /\ pc' = "j_loop") => z' \subseteq z
    /\ (pc = "x_test" /\ pc' = "x_test") => x' \subseteq x
    /\ (pc = "i_loop" /\ pc' = "y_test") => old_y \subseteq y'

\* C9: during calcWinningRegion every successive value of Z and every
\* successive value of X inside one loop over x is a subset of the previous
\* one, and every successive value of Y inside one loop over y a superset.
C9_IteratesAreMonotone == [][C9_Step]_vars

\* inside the second outer round z has shrunk, y has grown and x has shrunk
C9_Witness ==
    /\ pc = "x_test"
    /\ old_z # ONE /\ z # old_z
    /\ old_y # ZERO
    /\ x # old_x /\ x \subseteq old_x /\ old_x # ZERO

\* C10: the region W calcWinningRegion returns is a fixpoint of the step of
\* every guarantee j:  mu Y. OR_i nu X. (g_j and coax(W)) or coax(Y) or
\* (not a_i and coax(X))  is W.
C10_RegionIsFixpointOfEachGuarantee ==
    pc = "win_done" => \A jj \in 1 .. n : MuY(ZERO, winningRegion, jj) = winningRegion

\* a non-trivial region of a game with two guarantees and an assumption
C10_Witness ==
    /\ pc = "win_done" /\ n >= 2 /\ m >= 1
    /\ winningRegion \notin {ZERO, ONE}
    /\ spec.guarantees[1] # spec.guarantees[2]

\* One more round of the loop over z is about to start: not the first one.
AnotherRound == pc = "z_test" /\ old_z # ZERO /\ z # old_z

\* C11: with m = 0 assumptions and n >= 1 guarantees, in every iteration of
\* the loop over y the fixpoint over x starts at and stays at the current z:
\* its value, which is what the iteration leaves in y, is z.
C11_NoAssumptionsXFixpointIsZ ==
    (pc = "y_test" /\ m = 0 /\ n >= 1 /\ r >= 1) => y = z

\* C12: for the game with one input bit, one output bit, the single guarantee
\* out = 1 and no assumption, calcWinningRegion takes one round of its loop
\* over z and returns the region of all states.
C12_OutIsOneConvergesToAllStates ==
    spec = OutIsOne =>
        /\ ~AnotherRound
        /\ pc = "win_done" => winningRegion = ONE

\* The single guarantee of the game is the constant FALSE.
GuaranteeIsFalse == spec.guarantees = <<ZERO>>

\* The environment cannot lose by its own doing: each of its assumptions is
\* TRUE, env_trans allows a next input from every state, and some input
\* satisfies init_env.
HarmlessEnvironment ==
    /\ \A k \in 1 .. m : spec.assumptions[k] = ONE
    /\ \A s \in States : EnvMoves(s) # {}
    /\ spec.init1 # ZERO

\* C13, for every environment: for a game whose single guarantee is FALSE
\* isRealizable returns False, whatever the assumptions and the transition
\* relations.
C13_FalseGuaranteeIsUnrealizable ==
    (pc \in {"realizable", "unrealizable"} /\ GuaranteeIsFalse) => ~realizable

\* C13, for an environment that cannot lose by its own doing: for a game
\* whose single guarantee is FALSE, whose assumptions are all TRUE, whose
\* env_trans allows a next input from every state and whose init_env some
\* input satisfies, isRealizable returns False.
C13_FalseGuaranteeHarmlessEnvironmentIsUnrealizable ==
    (pc \in {"realizable", "unrealizable"} /\ GuaranteeIsFalse
        /\ HarmlessEnvironment) => ~realizable

\* isRealizable has answered for such a game with two assumptions, a
\* restricted env_trans and a restricted init_env
C13_Witness ==
    /\ pc = "unrealizable" /\ GuaranteeIsFalse /\ HarmlessEnvironment
    /\ m >= 2
    /\ spec.trans1 # ONE /\ spec.init1 # ONE

\* The counterstrategy has a move from state s with ix = 0 and jx = 0: a
\* next input env_trans allows, with a next ix and a next jx.
HasCounterMove(s) == \E mv \in CounterMoves(s, 0, 0) : mv[1] \in EnvMoves(s)

C15_NoGuaranteesAllStates ==
    (pc = "win_done" /\ n = 0) => winningRegion = ONE

\* the region of a game without guarantees, with an assumption that is not
\* TRUE and transition relations that leave some state without a move
C15_Witness ==
    /\ pc = "win_done" /\ n = 0 /\ m >= 1
    /\ spec.assumptions[1] # ONE
    /\ \E s \in States : EnvMoves(s) = {}
    /\ \E s \in States : \E ip \in EnvMoves(s) :
          \A op \in Out : <<s[1], s[2], ip, op>> \notin spec.trans2
    /\ winningRegion = ONE

\* calcStrategy is called, or is at one of its steps.
InCalcStrategy == pc \in {"realizable", "rho3", "rho2", "rho1"}

\* The game has no guarantee, or the solver recorded no iterate of y for
\* some guarantee.
EmptyTrace == n = 0 \/ \E jj \in 1 .. n : Len(yArray[jj]) = 0

\* A step of calcStrategy on an empty trace goes on to the next rho or ends
\* in an error, never with the strategy; the step that needs the guarantees
\* or the first iterate of y ends in an error.
C16_Step ==
    (InCalcStrategy /\ EmptyTrace /\ pc' # pc) =>
        /\ pc' \in {"rho3", "rho2", "strategy_error"}
        /\ pc' = "strategy_error" => error' # ""
        /\ (n = 0 \/ pc = "rho2") => pc' = "strategy_error"
        /\ strategy' = {}

\* C16: calcStrategy fails with an error and yields no strategy whenever the
\* game has n = 0 guarantees or the recorded trace Y[j] is empty for some
\* guarantee j.
C16_CalcStrategyFailsOnEmptyTrace == [][C16_Step]_vars

\* calcStrategy has failed in _calc_rho2 on a game with guarantees and
\* assumptions, for want of a first iterate of y
C16_Witness ==
    /\ pc = "strategy_error" /\ error = "KeyError"
    /\ n >= 1 /\ m >= 1
    /\ \E jj \in 1 .. n : Len(yArray[jj]) = 0

\* Some state satisfying init_env and init_sys lies outside the region.
SomeInitialStateLoses ==
    \E s \in States : /\ Holds(spec.init1, s) /\ Holds(spec.init2, s)
                       /\ ~Holds(winningRegion, s)

\* A call of isRealizable.
C17_Step ==
    (pc = "win_done" /\ pc' \in {"realizable", "unrealizable"}) =>
        IF realizable' /\ SomeInitialStateLoses
        THEN /\ init1' = spec.init1 \cap winningRegion
             /\ init2' = spec.init2 \cap winningRegion
             /\ init12' = (spec.init1 \cap spec.init2) \cap winningRegion
        ELSE /\ init1' = spec.init1 /\ init1' = init1
             /\ init2' = spec.init2 /\ init2' = init2
             /\ init12' = spec.init1 \cap spec.init2 /\ init12' = init12

\* C17: if isRealizable finds the game realizable but init_env and init_sys
\* together are not contained in the region, it replaces init_env, init_sys
\* and their conjunction by their conjunction with the region; in every
\* other case it leaves the three as they are.
C17_IsRealizableNarrowsInitialStates == [][C17_Step]_vars

\* isRealizable returned True and narrowed the initial states to some but
\* not all of them
C17_Witness ==
    /\ pc = "realizable"
    /\ init12 # spec.init12 /\ init12 # ZERO
    /\ init1 # spec.init1 /\ init2 # spec.init2

\* The states the definition of _coax_env names for a set of states S: some
\* next input env_trans allows is such that every next output sys_trans
\* allows leads into S.
CoaxEnvStates(S) ==
    {s \in States :
        \E ip \in In :
            /\ <<s[1], s[2], ip, 0>> \in spec.trans1
            /\ \A op \in Out : <<s[1], s[2], ip, op>> \in spec.trans2
                                    => <<ip, op>> \in S}

\* C18: for every set of states S, _coax_env(S) is the set of the states
\* with a next input env_trans allows such that every next output sys_trans
\* allows leads into S; it is the complement of coax of the complement of S.
C18_CoaxEnvIsDualOfCoax ==
    pc = "coax_env_done" =>
        /\ StatesOf(mixed_preimage) = CoaxEnvStates(StatesOf(arg_states))
        /\ mixed_preimage = Lift(StatesOf(mixed_preimage))
        /\ mixed_preimage = Not(coax(Not(arg_states)))

\* _coax_env returned a proper, non-empty set of states that is not its
\* argument, in a game where env_trans forbids some next input
C18_Witness ==
    /\ pc = "coax_env_done"
    /\ mixed_preimage \notin {ZERO, ONE, arg_states}
    /\ arg_states \notin {ZERO, ONE}
    /\ \E s \in States : EnvMoves(s) # In

\* Two relations over the game's variables, ix and jx agree on the present
\* states reachable from the initial states.
AgreeOnReachable(f, g) ==
    \A reach \in {compute_reachable_states} :
        {e \in f : e[1] \in reach} = {e \in g : e[1] \in reach}

\* C19: for the same z_array, y_array and x_array, strategy_env_fast with
\* restrict = False returns the relation strategy_env returns, and with
\* restrict = True a relation that agrees with it on every present state
\* reachable from the initial states.
C19_FastCounterstrategyEqualsPlain ==
    pc = "counter_done" =>
        /\ strategy_env_fast_unrestricted = strategy_env
        /\ AgreeOnReachable(counterstrategy, strategy_env)

\* strategy_env_fast has run for a game with two guarantees and two
\* assumptions: restrict changed the relation, some but not all states are
\* reachable, and strategy_env has moves of rho1, rho2 and rho3
C19_Witness ==
    /\ pc = "counter_done" /\ n >= 2 /\ m >= 2
    /\ counterstrategy # strategy_env
    /\ env_rho1 # {} /\ env_rho2 # {} /\ env_rho3 # {}
    /\ compute_reachable_states \notin {ZERO, ONE}

\* C20: once cacheSize has been set to a limit k >= 0, the number of stored
\* objects the cache reports (cacheSize, the length of the tree) never
\* exceeds k, whatever calls of update follow; with k = 0 it is 0.
C20_CacheSizeWithinLimit ==
    (pc = "cache" /\ max_cache_size # None) =>
        cachetree.num_entries <= max_cache_size

\* list a holds the elements of list b in their order, maybe with others
\* in between
RECURSIVE IsSublist(_, _)
IsSublist(b, a) ==
    IF b = <<>> THEN TRUE
    ELSE IF a = <<>> THEN FALSE
    ELSE IF Head(a) = Head(b) THEN IsSublist(Tail(b), Tail(a))
    ELSE IsSublist(b, Tail(a))

Without(list, k) == SubSeq(list, 1, k - 1) \o SubSeq(list, k + 1, Len(list))

\* The list is a minimal failing sublist of all_elements.
MinimalFailing(list) ==
    /\ IsSublist(list, all_elements)
    /\ ~test(list)
    /\ \A k \in 1 .. Len(list) : test(Without(list, k))

\* C21, for every test: for a list the test fails on, and a test that fails
\* on every list holding a list it fails on, minimize returns a minimal
\* failing sublist: a sublist of its argument the test fails on, such that
\* the test passes once any single element is removed.
C21_MinimizeReturnsMinimalFailingSubset ==
    (pc = "minimize_done" /\ ~test(all_elements)) => MinimalFailing(solution)

\* C21, for a test that passes on the empty list: for a list the test fails
\* on, and a test that fails on every list holding a list it fails on and
\* passes on the empty list, minimize returns a minimal failing sublist.
C21_MinimizeReturnsMinimalFailingSubsetUnlessEmptyFails ==
    (pc = "minimize_done" /\ ~test(all_elements) /\ test(<<>>))
        => MinimalFailing(solution)

\* minimize has reduced a list of four elements to two that are not
\* neighbours, for a test that fails for two reasons
C21_Witness ==
    /\ pc = "minimize_done" /\ ~test(all_elements) /\ test(<<>>)
    /\ Len(all_elements) = 4 /\ Cardinality(causes) = 2
    /\ Len(solution) = 2 /\ solution[2] > solution[1] + 1

Winning(s) == Holds(winningRegion, s)

\* C22: for a game with n >= 1 guarantees and m >= 1 assumptions, every
\* reachable state s of the winning region, every jx in [0, n) and every next
\* input i' that env_trans allows from s, the strategy has a move from
\* (s, jx) on i' with a next output and a next jx, and every such move
\* satisfies sys_trans and leads to a state of the winning region.
C22_StrategyAnswersEveryInput ==
    (pc = "strategy_done" /\ n >= 1 /\ m >= 1) =>
        \A s \in ReachableWinning : \A k \in 0 .. (n - 1) : \A ip \in EnvMoves(s) :
            /\ SysMoves(s, k, ip) # {}
            /\ \A mv \in SysMoves(s, k, ip) :
                  /\ <<s[1], s[2], ip, mv[1]>> \in spec.trans2
                  /\ Winning(<<ip, mv[1]>>)

\* the strategy of a game with two guarantees and an assumption whose
\* region is neither empty nor everything: some reachable winning state has
\* a next input with an output that leaves the region, and restrict changed
\* the strategy outside the reachable states
C22_Witness ==
    /\ pc = "strategy_done" /\ n >= 2 /\ m >= 1
    /\ winningRegion \notin {ZERO, ONE}
    /\ dc # "keep"
    /\ \E s \in ReachableWinning : \E ip \in EnvMoves(s) : \E op \in Out :
          /\ <<s[1], s[2], ip, op>> \in spec.trans2
          /\ ~Winning(<<ip, op>>)

\* The moves of _calc_rho3 from the reachable states: restrict leaves them
\* as they are.
Rho3Moves == {e \in calc_rho3 : e[1] \in reachable_states}

\* The iterate X[j][r][i] with indices of the sequences, the empty set for
\* i = 0.
XIterate(jj, rr, ii) == IF ii = 0 THEN ZERO ELSE xArray[jj][rr][ii]

\* The union of the iterates recorded for guarantee jj before X[jj][rr][ii]:
\* the value of `low` when _calc_rho3 comes to it.
LowBefore(jj, rr, ii) ==
    UNION {xArray[jj][r2][i2] :
              <<r2, i2>> \in {q \in (1 .. rr) \X (1 .. m) :
                                 q[1] < rr \/ (q[1] = rr /\ q[2] < ii)}}

\* C23, as the text has it: every move of rho3 is one from memory j and a
\* state of some X[j][r][i] outside X[j][r][i-1] where assumption i does not
\* hold, into X[j][r][i-1], with the next memory (j+1) mod n.
C23_Rho3LeadsToPreviousXAdvancesMemory ==
    (pc = "rho3" /\ m >= 1) =>
        \A e \in Rho3Moves :
            /\ e[3] = (e[2] + 1) % n
            /\ \E rr \in 1 .. Len(xArray[e[2] + 1]) : \E ii \in 1 .. m :
                  /\ e[1] \in XIterate(e[2] + 1, rr, ii)
                  /\ e[1] \notin XIterate(e[2] + 1, rr, ii - 1)
                  /\ e[1] \notin spec.assumptions[ii]
                  /\ e[1] \in swapVariables(XIterate(e[2] + 1, rr, ii - 1))

\* C23, as the code has it: every move of rho3 from a reachable state is one
\* from memory j and a state of some X[j][r][i] outside every iterate
\* recorded before it for j, where assumption i does not hold; it satisfies
\* the transition relations, leads into X[j][r][i] itself, and leaves the
\* memory at j.
C23_Rho3StaysInXKeepsMemory ==
    (pc = "rho3" /\ m >= 1) =>
        \A e \in Rho3Moves :
            /\ e[3] = e[2]
            /\ e[1] \in spec.trans12
            /\ \E rr \in 1 .. Len(xArray[e[2] + 1]) : \E ii \in 1 .. m :
                  /\ e[1] \in XIterate(e[2] + 1, rr, ii)
                  /\ e[1] \notin LowBefore(e[2] + 1, rr, ii)
                  /\ e[1] \notin spec.assumptions[ii]
                  /\ e[1] \in swapVariables(XIterate(e[2] + 1, rr, ii))

\* _calc_rho3 is about to run for a game with two guarantees and two
\* assumptions: it has a move for the second guarantee from a reachable
\* state that is in the iterate of the second assumption of a later
\* iteration of y only
C23_Witness ==
    /\ pc = "rho3" /\ n >= 2 /\ m >= 2
    /\ \E e \in Rho3Moves :
          /\ e[2] = 1
          /\ e[1] \notin unionAll(xArray[2][1], m)
          /\ \A rr \in 1 .. Len(xArray[2]) : e[1] \notin xArray[2][rr][1]

\* The moves of _calc_rho2 from the reachable states.
Rho2Moves == {e \in calc_rho2 : e[1] \in reachable_states}

\* The move t leads from Y[j][r] without Y[j][r-1] into Y[j][r-1], for
\* indices jj and rr of the sequences.
DescendsY(t, jj, rr) ==
    /\ t \in yArray[jj][rr]
    /\ t \notin yArray[jj][rr - 1]
    /\ t \in swapVariables(yArray[jj][rr - 1])

\* C24, as the text has it: every move of rho2 is one from memory 0 and a
\* state of some Y[j][r] outside Y[j][r-1], into Y[j][r-1], with the next
\* memory j.
C24_Rho2FromUnsetMemoryCommitsToJ ==
    (pc = "rho2" /\ ~EmptyTrace) =>
        \A e \in Rho2Moves :
            /\ e[2] = 0
            /\ \E rr \in 2 .. Len(yArray[e[3] + 1]) : DescendsY(e[1], e[3] + 1, rr)

\* C24, as the code has it: every move of rho2 from a reachable state is one
\* from memory j and a state of some Y[j][r] outside Y[j][r-1]; it satisfies
\* the transition relations, leads into Y[j][r-1], and leaves the memory at
\* j.
C24_Rho2DescendsYKeepsMemory ==
    (pc = "rho2" /\ ~EmptyTrace) =>
        \A e \in Rho2Moves :
            /\ e[3] = e[2]
            /\ e[1] \in spec.trans12
            /\ \E rr \in 2 .. Len(yArray[e[2] + 1]) : DescendsY(e[1], e[2] + 1, rr)

\* _calc_rho2 is about to run for a game with two guarantees: it has a move
\* for the second one, from a reachable state where that guarantee does not
\* hold, and restrict changes the relation outside the reachable states
C24_Witness ==
    /\ pc = "rho2" /\ n >= 2 /\ ~EmptyTrace
    /\ dc # "keep" /\ reachable_states # ONE
    /\ \E e \in Rho2Moves : e[2] = 1 /\ e[1] \notin spec.guarantees[2]

\* A move of rho1 satisfies the transition relations and leads from the
\* winning region into the winning region.
StaysInRegion(t) ==
    /\ t \in spec.trans12
    /\ t \in winningRegion
    /\ t \in swapVariables(winningRegion)

\* C25, as the text has it: every move of rho1 satisfies the combined
\* transition relation, starts in the winning region, lands in it, and has
\* the next memory 0.
C25_Rho1ResetsMemory ==
    pc = "rho1" => \A e \in calc_rho1 : StaysInRegion(e[1]) /\ e[3] = 0

\* C25, as the code has it: every move of rho1 satisfies the combined
\* transition relation, starts in the winning region, in a state where the
\* guarantee j of the current memory holds, lands in the winning region, and
\* has the next memory (j+1) mod n.
C25_Rho1AdvancesMemory ==
    pc = "rho1" =>
        \A e \in calc_rho1 :
            /\ StaysInRegion(e[1])
            /\ e[1] \in spec.guarantees[e[2] + 1]
            /\ e[3] = (e[2] + 1) % n

\* _calc_rho1 is about to run for a game with two guarantees whose region is
\* neither empty nor everything: it has a move from memory 0 to 1 and one
\* from 1 to 0
C25_Witness ==
    /\ pc = "rho1" /\ n >= 2
    /\ winningRegion \notin {ZERO, ONE}
    /\ \E e \in calc_rho1 : e[2] = 0 /\ e[3] = 1
    /\ \E e \in calc_rho1 : e[2] = 1 /\ e[3] = 0

\* The code of the value k of jx over the bits _moduloInc made for n = arg_n
Code(k) ==
    IF one_hot THEN [b \in 1 .. arg_n |-> IF b = k + 1 THEN 1 ELSE 0]
    ELSE [b \in 1 .. num_of_bits(arg_n) |-> (k \div Pow2(b - 1)) % 2]

\* C26: for every n >= 1 and both encodings, the counter _moduloInc builds
\* has the initial value jx = 0, and its relation relates every value jx in
\* [0, n) to exactly one successor, (jx + 1) mod n; the relation is one over
\* the bits of jx only, so no input and no output has a part in it.
C26_ModuloIncIsCounterModuloN ==
    pc = "jx" =>
        /\ start_state = {Code(0)}
        /\ \A k \in 0 .. (arg_n - 1) :
              {pq[2] : pq \in {e \in trans_relation : e[1] = Code(k)}}
                  = {Code((k + 1) % arg_n)}
        /\ \E k \in 0 .. (arg_n - 1) : jp1 = {Code(k)}

\* the binary counter for an n that is not a power of two has come to its
\* last value, n - 1, whose successor is not the sum of the bits and one
C26_Witness ==
    /\ pc = "jx" /\ ~one_hot
    /\ arg_n >= 5 /\ Pow2(num_of_bits(arg_n)) # arg_n
    /\ jp1 = {Code(arg_n - 1)}

\* C27: on return from calcWinningRegion with n >= 1 and m >= 1, for every
\* guarantee j the arrays X[j] and Y[j] hold iterates of the same indices,
\* every retained Y[j][r] is the union over i of X[j][r][i], the retained
\* Y[j][r] together cover the returned region, and the last retained one is
\* the returned region: the iterate that was discarded held no state the
\* retained ones lack.
C27_RetainedTraceCoversRegion ==
    (pc = "win_done" /\ n >= 1 /\ m >= 1) =>
        \A jj \in 1 .. n :
            /\ Len(xArray[jj]) = Len(yArray[jj])
            /\ \A rr \in 1 .. Len(yArray[jj]) :
                  /\ Len(xArray[jj][rr]) = m
                  /\ yArray[jj][rr] = unionAll(xArray[jj][rr], m)
            /\ unionAll(yArray[jj], Len(yArray[jj])) = winningRegion
            /\ Len(yArray[jj]) >= 1 => Last(yArray[jj]) = winningRegion

\* calcWinningRegion has returned a region that is not empty for a game
\* with two guarantees and two assumptions, with two retained iterates of y
\* or more for a guarantee, the iterates of x of the second of which differ
\* between the assumptions
C27_Witness ==
    /\ pc = "win_done" /\ n >= 2 /\ m >= 2
    /\ winningRegion # ZERO
    /\ \E jj \in 1 .. n :
          /\ Len(yArray[jj]) >= 2
          /\ xArray[jj][2][1] # xArray[jj][2][2]

\* C28: for every game with n >= 1 and m >= 1 that isRealizable reports
\* realizable, calcStrategy ends without an error: when _calc_rho2 is about
\* to run every guarantee has a retained iterate of y.
C28_CalcStrategyCompletesIfRealizable ==
    (n >= 1 /\ m >= 1) =>
        /\ pc # "strategy_error"
        /\ pc = "rho2" => \A jj \in 1 .. n : Len(yArray[jj]) >= 1

\* winm_env has returned for a game with a guarantee and an assumption
WinmEnvReturned == pc \in {"winm_done", "dual_done"} /\ n >= 1 /\ m >= 1

\* The iterates of X of the final pass of the loop over Y in round k of the
\* loop over Z (k an index of the sequences), computed from what was
\* returned: in that pass Y is y_array[k][jj] and Z is z_array[k - 1].
FinalIterates(k, jj, ii) ==
    loopX(ZERO, ONE,
          (Not(spec.guarantees[jj]) \cup coax_env(z_array[k - 1]))
              \cap coax_env(y_array[k][jj]),
          ii, <<ZERO>>)

\* C29: on return from winm_env, for every round a >= 1, guarantee j and
\* assumption i, x_array[a][j][i] is exactly the list of iterates of X of the
\* final pass of the loop over Y for (a, j): it starts with the empty set, it
\* does not decrease, and the intersection over i of its last entries is
\* y_array[a][j]; no iterate of an earlier pass remains.
C29_XArrayHoldsFinalIteratesOnly ==
    WinmEnvReturned =>
        \A k \in 2 .. Len(x_array) : \A jj \in 1 .. n :
            /\ \A ii \in 1 .. m :
                  LET xs == x_array[k][jj][ii]
                  IN  /\ xs = FinalIterates(k, jj, ii)
                      /\ xs[1] = ZERO
                      /\ \A c \in 1 .. (Len(xs) - 1) : xs[c] \subseteq xs[c + 1]
            /\ interAll([ii \in 1 .. m |-> Last(x_array[k][jj][ii])], m)
                   = y_array[k][jj]

\* C30: during calcStrategy the x array is released by the step that builds
\* rho3, before rho2 is built, and the y array by the step that builds rho2,
\* before rho1 is built; no other step releases one, a released array stays
\* released, and from its release on the accessor raises instead of
\* returning the array.
C30_ArraysReleasedBetweenRules ==
    [][/\ (pc = "rho3" /\ pc' = "rho2") =>
              /\ getxArray.raises = "" /\ getxArray.returns = xArray
              /\ strategy' = strategy \cup calc_rho3
              /\ getxArray'.raises # ""
              /\ getyArray'.raises = "" /\ getyArray'.returns = yArray
       /\ (pc = "rho2" /\ pc' = "rho1") =>
              /\ getyArray.raises = "" /\ getxArray.raises # ""
              /\ strategy' = strategy \cup calc_rho2
              /\ getyArray'.raises # "" /\ getxArray'.raises # ""
       /\ (getxArray.raises = "" /\ getxArray'.raises # "") =>
              pc = "rho3" /\ pc' = "rho2"
       /\ (getyArray.raises = "" /\ getyArray'.raises # "") =>
              pc = "rho2" /\ pc' = "rho1"
       /\ getxArray.raises # "" => getxArray'.raises # ""
       /\ getyArray.raises # "" => getyArray'.raises # ""
       /\ pc' = "rho1" => getxArray'.raises # "" /\ getyArray'.raises # ""
      ]_vars

\* rho3 and rho2 are built, with moves of rho3 and of rho2 in the strategy,
\* for a game with two guarantees and two assumptions: rho1 is about to be
\* built and both accessors raise
C30_Witness ==
    /\ pc = "rho1" /\ n >= 2 /\ m >= 2
    /\ getxArray.raises # "" /\ getyArray.raises # ""
    /\ xArray # <<>> /\ yArray # <<>>
    /\ calc_rho2 # {} /\ calc_rho2 \subseteq strategy
    /\ strategy \ calc_rho2 # {}

====
